---- MODULE Spec2Model ----
(***************************************************************************)
(* Relation graph engine of rebacs (src/rebacdb/src/lib.rs).               *)
(*                                                                         *)
(* The store is a set of vertices keyed by VertexId; every vertex carries  *)
(* its own edges_in / edges_out sets.  Vertices compare, hash and order by *)
(* their id alone (lib.rs 487-509), so a handle Arc<Vertex> is modelled by *)
(* the VertexId it carries.                                                *)
(***************************************************************************)
EXTENDS Integers, Sequences, FiniteSets, TLC

\* ------------------------------------------------------------------ bounds
\* Number of insert/remove calls explored from the empty graph.
MaxOps == 3
\* Largest depth limit Some(k) passed to check.
MaxLimit == 3

\* Number of lines of a save file handed to read_savefile.
MaxLines == 2

\* ------------------------------------------------------------ identifiers
WILDCARD_ID == "*"

\* Option::None of VertexId.relation (an Object carries no relation).
None == "<none>"

\* Identifier strings the calls draw from, each listed in the order of the
\* derived Ord on String ("*" sorts before letters, "g" before "u").
NamespaceOrder == <<"g", "u">>
IdOrder == <<WILDCARD_ID, "a">>
RelationOrder == <<None, "r">>

Range(f) == {f[i] : i \in DOMAIN f}

Namespaces == Range(NamespaceOrder)
Ids == Range(IdOrder)
Relations == Range(RelationOrder) \ {None}

VertexId == [namespace : Namespaces, id : Ids, relation : Relations \cup {None}]

\* Object::new / From<(&str,&str)>: relation is None.
Object == {v \in VertexId : v.relation = None}
\* Set::new / From<(&str,&str,&str)>: relation is Some(_).
Set == {v \in VertexId : v.relation # None}
\* The source of a tuple is either of the two.
ObjectOrSet == Object \cup Set

MkObject(ns, id) == [namespace |-> ns, id |-> id, relation |-> None]
MkSet(ns, id, rel) == [namespace |-> ns, id |-> id, relation |-> rel]

\* Option<u32> of check's limit: <<>> is None, <<k>> is Some(k).
NoLimit == <<>>
Some(k) == <<k>>
Limits == {NoLimit} \cup {Some(k) : k \in 0..MaxLimit}

\* ------------------------------------------------------------------ state
VARIABLES
    verticies,   \* RelationGraph.verticies: the ids of the vertices in the store
    edges_in,    \* Vertex.edges_in of every vertex, by id
    edges_out,   \* Vertex.edges_out of every vertex, by id
    nops,        \* number of calls made so far
    \* read_savefile in progress (the graph it builds is the store above)
    input,       \* lines: the lines of the file not read yet
    rd_vertex,   \* the local `vertex`: <<>> for None, <<(namespace, id)>>
    panicked,    \* an unwrap() or a slice of read_savefile has panicked
    \* tasks running operations concurrently on the shared store
    pc,          \* the suspension point each task is at
    call,        \* the operation each task runs, with its arguments
    loc,         \* the local variables of each task's operation
    store_readers,  \* read guards of RelationGraph.verticies held, by task
    store_writer,   \* the tasks holding its write guard
    store_queue,    \* the FIFO queue of tasks waiting for it: (task, mode)
    \* the RelationSet variant of the store (src/src/relation_set.rs)
    src_to_dst,  \* RelationSet.src_to_dst: source -> relation -> destinations
    dst_to_src   \* RelationSet.dst_to_src: destination -> relation -> sources

graphVars == <<verticies, edges_in, edges_out>>
loadVars == <<input, rd_vertex, panicked>>
concVars == <<pc, call, loc, store_readers, store_writer, store_queue>>
setVars == <<src_to_dst, dst_to_src>>

vars == <<verticies, edges_in, edges_out, nops, input, rd_vertex, panicked,
          pc, call, loc, store_readers, store_writer, store_queue,
          src_to_dst, dst_to_src>>

\* The graph as one value, for the operations that build or read a graph
\* other than the live one (read_savefile builds a fresh one).
Graph == [verticies |-> verticies, edges_in |-> edges_in, edges_out |-> edges_out]

\* RelationGraph::default(): an empty store.
EmptyGraph ==
    [verticies |-> {},
     edges_in |-> [v \in VertexId |-> {}],
     edges_out |-> [v \in VertexId |-> {}]]

\* --------------------------------------------------------------- mutators
\* The closure get_or_create of insert: look the id up in the store, and
\* create a vertex with empty edge sets when it is missing.
get_or_create(g, vertex) ==
    IF vertex \in g.verticies
    THEN g
    ELSE [verticies |-> g.verticies \cup {vertex},
          edges_in |-> [g.edges_in EXCEPT ![vertex] = {}],
          edges_out |-> [g.edges_out EXCEPT ![vertex] = {}]]

\* A plausible slip: only the reverse index of the edge is recorded.
add_edge_in_only(g, from, to) ==
    [g EXCEPT !.edges_in[to] = IF from \in @ THEN @ ELSE @ \cup {from}]

\* add_edge: record the edge on both sides, each only when it is missing.
add_edge(g, from, to) ==
    LET g1 == [g EXCEPT !.edges_out[from] = IF to \in @ THEN @ ELSE @ \cup {to}]
    IN  [g1 EXCEPT !.edges_in[to] = IF from \in @ THEN @ ELSE @ \cup {from}]

\* (namespace, WILDCARD_ID, relation) of an identifier.
wildcard_of(v) == [v EXCEPT !.id = WILDCARD_ID]

\* A plausible slip: the wildcard vertices are created but the edge from the
\* destination's wildcard to the destination is left out.
insert_no_dst_scaffold(g, src, dst) ==
    LET g1 == get_or_create(g, wildcard_of(src))
        g2 == get_or_create(g1, src)
        g3 == get_or_create(g2, wildcard_of(dst))
        g4 == get_or_create(g3, dst)
        g5 == IF src.relation = None /\ src.id # WILDCARD_ID
              THEN add_edge(g4, src, wildcard_of(src))
              ELSE IF src.relation # None
                   THEN add_edge(g4, wildcard_of(src), src)
                   ELSE g4
    IN  add_edge(g5, src, dst)

\* A plausible slip: the scaffolding edge of an Object source is left out.
insert_no_src_scaffold(g, src, dst) ==
    LET g1 == get_or_create(g, wildcard_of(src))
        g2 == get_or_create(g1, src)
        g3 == get_or_create(g2, wildcard_of(dst))
        g4 == get_or_create(g3, dst)
        g5 == IF src.relation # None THEN add_edge(g4, wildcard_of(src), src) ELSE g4
        g6 == add_edge(g5, wildcard_of(dst), dst)
    IN  add_edge(g6, src, dst)

\* RelationGraph::insert on a graph value.
insert(g, src, dst) ==
    LET src_without_relation == src.relation = None
        src_wildcard == wildcard_of(src)
        dst_wildcard == wildcard_of(dst)
        g1 == get_or_create(g, src_wildcard)
        g2 == get_or_create(g1, src)
        g3 == get_or_create(g2, dst_wildcard)
        g4 == get_or_create(g3, dst)
        g5 == IF src_without_relation /\ src.id # WILDCARD_ID
              THEN add_edge(g4, src, src_wildcard)
              ELSE IF ~src_without_relation
                   THEN add_edge(g4, src_wildcard, src)
                   ELSE g4
        g6 == add_edge(g5, dst_wildcard, dst)
    IN  add_edge(g6, src, dst)

\* A plausible slip: a vertex is collected as soon as it has no outgoing
\* edge.
remove_if_no_out(g, v) ==
    IF g.edges_out[v] = {}
    THEN [g EXCEPT !.verticies = @ \ {v}]
    ELSE g

\* A plausible slip: a vertex is collected as soon as it has no incoming
\* edge.
remove_if_no_in(g, v) ==
    IF g.edges_in[v] = {}
    THEN [g EXCEPT !.verticies = @ \ {v}]
    ELSE g

\* verticies.remove(&v.id) guarded by both edge sets of v being empty.
remove_if_isolated(g, v) ==
    IF g.edges_in[v] = {} /\ g.edges_out[v] = {}
    THEN [g EXCEPT !.verticies = @ \ {v}]
    ELSE g

\* A plausible slip: the edge is dropped from the reverse index only.
remove_in_only(g, src, dst) ==
    IF src \in g.verticies /\ dst \in g.verticies
    THEN [g EXCEPT !.edges_in[dst] = @ \ {src}]
    ELSE g

\* A plausible slip: the scaffolding edge insert put on dst is torn down
\* together with the tuple.
remove_with_scaffold(g, src, dst) ==
    IF src \in g.verticies /\ dst \in g.verticies
    THEN LET g1 == [g EXCEPT !.edges_out[src] = @ \ {dst}]
             g2 == [g1 EXCEPT !.edges_in[dst] = @ \ {src, wildcard_of(dst)}]
             g3 == [g2 EXCEPT !.edges_out[wildcard_of(dst)] = @ \ {dst}]
             g4 == remove_if_isolated(g3, src)
         IN  remove_if_isolated(g4, dst)
    ELSE g

\* A plausible slip: the endpoints are tested for isolation before the edge
\* is taken out of their sets.
remove_collect_first(g, src, dst) ==
    IF src \in g.verticies /\ dst \in g.verticies
    THEN LET g1 == remove_if_isolated(g, src)
             g2 == remove_if_isolated(g1, dst)
             g3 == [g2 EXCEPT !.edges_out[src] = @ \ {dst}]
         IN  [g3 EXCEPT !.edges_in[dst] = @ \ {src}]
    ELSE g

\* RelationGraph::remove on a graph value.
remove(g, src, dst) ==
    IF src \in g.verticies /\ dst \in g.verticies
    THEN LET g1 == [g EXCEPT !.edges_out[src] = @ \ {dst}]
             g2 == [g1 EXCEPT !.edges_in[dst] = @ \ {src}]
             g3 == remove_if_isolated(g2, src)
         IN  remove_if_isolated(g3, dst)
    ELSE g

\* ---------------------------------------------------------------- queries
\* A plausible slip: a source without a vertex is resolved to the wildcard
\* of its namespace, as check does.
has_via_wildcard(g, src, dst) ==
    LET s == IF src \in g.verticies THEN src
             ELSE MkObject(src.namespace, WILDCARD_ID)
    IN  IF s \in g.verticies /\ dst \in g.verticies
        THEN dst \in g.edges_out[s]
        ELSE FALSE

\* RelationGraph::has: both endpoints resolve and dst is in src.edges_out.
has(g, src, dst) ==
    IF src \in g.verticies /\ dst \in g.verticies
    THEN dst \in g.edges_out[src]
    ELSE FALSE

\* A plausible slip: the wildcard Set of dst is not accepted as a match.
dst_match_exact(neighbor, dst) == neighbor = dst

\* A plausible slip: the relation of a wildcard vertex is not compared.
dst_match_any_relation(neighbor, dst) ==
    \/ neighbor = dst
    \/ /\ neighbor.namespace = dst.namespace
       /\ neighbor.id = WILDCARD_ID

\* The test check applies to a frontier vertex (lib.rs 276-279).
dst_match(neighbor, dst) ==
    \/ neighbor = dst
    \/ /\ neighbor.namespace = dst.namespace
       /\ neighbor.id = WILDCARD_ID
       /\ neighbor.relation = dst.relation

\* The wildcard check falls back to when src has no vertex: always the
\* Object (src.namespace, "*"), whatever the kind of src.
wildcard_src(src) == MkObject(src.namespace, WILDCARD_ID)

\* The while loop of check.  The frontier is a Vec collected from HashSets;
\* a vertex repeated in it is skipped by the visited test from depth 2 on,
\* and the result of a level does not depend on the order of the Vec, so the
\* frontier is kept as a set.
RECURSIVE check_loop(_, _, _, _, _, _)
check_loop(g, neighbors, visited, distance, dst, limit) ==
    IF neighbors = {} THEN FALSE
    ELSE IF limit # NoLimit /\ distance > limit[1] THEN FALSE
    ELSE LET fresh == IF distance > 1 THEN neighbors \ visited ELSE neighbors
         IN  IF \E n \in fresh : dst_match(n, dst) THEN TRUE
             ELSE check_loop(g,
                             UNION {g.edges_out[n] : n \in fresh},
                             visited \cup fresh,
                             distance + 1, dst, limit)

\* The while loop of check, watched: the vertices whose edges_out each
\* level reads (those of a level that returns true included).
RECURSIVE check_levels(_, _, _, _, _, _)
check_levels(g, neighbors, visited, distance, dst, limit) ==
    IF neighbors = {} THEN <<>>
    ELSE IF limit # NoLimit /\ distance > limit[1] THEN <<>>
    ELSE LET fresh == IF distance > 1 THEN neighbors \ visited ELSE neighbors
         IN  IF \E n \in fresh : dst_match(n, dst) THEN <<fresh>>
             ELSE <<fresh>> \o
                  check_levels(g,
                               UNION {g.edges_out[n] : n \in fresh},
                               visited \cup fresh,
                               distance + 1, dst, limit)

\* A plausible slip: the frontier is never advanced past the first level.
check_one_level(g, src, dst, limit) ==
    LET start == IF src \in g.verticies THEN {src}
                 ELSE {wildcard_src(src)} \cap g.verticies
    IN  /\ limit = NoLimit \/ limit[1] >= 1
        /\ \E s \in start : \E n \in g.edges_out[s] : dst_match(n, dst)

\* A plausible slip: distance starts at 0, so a limit of k lets k + 1 levels
\* through.
check_from_zero(g, src, dst, limit) ==
    IF src \in g.verticies
    THEN check_loop(g, g.edges_out[src], {}, 0, dst, limit)
    ELSE IF wildcard_src(src) \in g.verticies
         THEN check_loop(g, g.edges_out[wildcard_src(src)], {}, 0, dst, limit)
         ELSE FALSE

\* A plausible slip: the usual BFS, with the source marked visited up front
\* and the visited test applied at every depth.
check_visited_source(g, src, dst, limit) ==
    LET start == IF src \in g.verticies THEN src ELSE wildcard_src(src)
    IN  IF start \in g.verticies
        THEN check_loop(g, g.edges_out[start] \ {start}, {start}, 1, dst, limit)
        ELSE FALSE

\* RelationGraph::check.
check(g, src, dst, limit) ==
    IF src \in g.verticies
    THEN check_loop(g, g.edges_out[src], {}, 1, dst, limit)
    ELSE IF wildcard_src(src) \in g.verticies
         THEN check_loop(g, g.edges_out[wildcard_src(src)], {}, 1, dst, limit)
         ELSE FALSE

\* The order in which a HashSet hands out its elements is not fixed by the
\* program (the hasher is seeded per process).  It is an input of the
\* operations that iterate one: a sequence listing every VertexId once.
VertexOrder ==
    [i \in 1..(Len(NamespaceOrder) * Len(IdOrder) * Len(RelationOrder)) |->
        LET k == i - 1
            r == k % Len(RelationOrder)
            d == (k \div Len(RelationOrder)) % Len(IdOrder)
            n == k \div (Len(RelationOrder) * Len(IdOrder))
        IN  [namespace |-> NamespaceOrder[n + 1], id |-> IdOrder[d + 1],
             relation |-> RelationOrder[r + 1]]]

Reverse(s) == [i \in 1..Len(s) |-> s[Len(s) + 1 - i]]

\* The iteration orders explored.
IterOrders == {VertexOrder, Reverse(VertexOrder)}

\* set.iter() under the iteration order ord.
Iter(set, ord) == SelectSeq(ord, LAMBDA v : v \in set)

\* The entries pushed for the in-neighbours of a vertex: (neighbour, path).
in_entries(g, v, path, ord) ==
    LET it == Iter(g.edges_in[v], ord)
    IN  [i \in 1..Len(it) |-> <<it[i], path>>]

\* The for loop of expand over one frontier.
RECURSIVE expand_level(_, _, _, _, _, _)
expand_level(g, neighbors, visited, next_neighbors, expanded_verticies, ord) ==
    IF neighbors = <<>>
    THEN [visited |-> visited, next_neighbors |-> next_neighbors,
          expanded_verticies |-> expanded_verticies]
    ELSE LET neighbor == Head(neighbors)[1]
             neighbor_path == Head(neighbors)[2]
         IN  IF neighbor \in visited
             THEN expand_level(g, Tail(neighbors), visited, next_neighbors,
                               expanded_verticies, ord)
             ELSE IF neighbor.relation = None
             THEN expand_level(g, Tail(neighbors), visited, next_neighbors,
                               Append(expanded_verticies, <<neighbor, neighbor_path>>),
                               ord)
             ELSE expand_level(g, Tail(neighbors), visited \cup {neighbor},
                               next_neighbors \o
                                   in_entries(g, neighbor,
                                              Append(neighbor_path, neighbor), ord),
                               expanded_verticies, ord)

\* The while loop of expand.
RECURSIVE expand_loop(_, _, _, _, _)
expand_loop(g, neighbors, visited, expanded_verticies, ord) ==
    IF neighbors = <<>>
    THEN expanded_verticies
    ELSE LET r == expand_level(g, neighbors, visited, <<>>, expanded_verticies, ord)
         IN  expand_loop(g, r.next_neighbors, r.visited, r.expanded_verticies, ord)

\* A plausible slip: a destination without a vertex is not resolved to its
\* wildcard.
start_vertex_no_fallback(g, dst) ==
    IF dst \in g.verticies THEN <<dst>> ELSE <<>>

\* A plausible slip: expand falls back to the Object wildcard, as check does.
start_vertex_object_wildcard(g, dst) ==
    IF dst \in g.verticies THEN <<dst>>
    ELSE IF wildcard_src(dst) \in g.verticies THEN <<wildcard_src(dst)>>
    ELSE <<>>

\* The vertex expand starts from: dst, else its wildcard, else none (<<>>).
start_vertex(g, dst) ==
    IF dst \in g.verticies THEN <<dst>>
    ELSE IF wildcard_of(dst) \in g.verticies THEN <<wildcard_of(dst)>>
    ELSE <<>>

\* A plausible slip: the paths are seeded empty, without the start vertex.
expand_path_without_start(g, dst, ord) ==
    LET start == start_vertex(g, dst)
    IN  IF start = <<>> THEN <<>>
        ELSE expand_loop(g, in_entries(g, start[1], <<>>, ord),
                         {start[1]}, <<>>, ord)

\* A plausible slip: the start vertex is not put into visited.
expand_start_not_visited(g, dst, ord) ==
    LET start == start_vertex(g, dst)
    IN  IF start = <<>> THEN <<>>
        ELSE expand_loop(g, in_entries(g, start[1], <<start[1]>>, ord),
                         {}, <<>>, ord)

\* RelationGraph::expand: the list of (Object, path) items.
expand(g, dst, ord) ==
    LET start == start_vertex(g, dst)
    IN  IF start = <<>> THEN <<>>
        ELSE expand_loop(g, in_entries(g, start[1], <<start[1]>>, ord),
                         {start[1]}, <<>>, ord)

\* --------------------------------------------------------- snapshot codec
\* A save file is a sequence of lines and a line a sequence of tokens: the
\* structural characters "[" "]" ":" "#" "=" "," " " one token each, and an
\* identifier (which holds none of them) one token.

\* One source of a relation line, as write_savefile renders it inside the
\* block current = (namespace, id).
render_src(src, current) ==
    LET obj == IF src.namespace = current[1] /\ src.id = current[2]
               THEN <<"self">>
               ELSE <<src.namespace, ":", src.id>>
    IN  IF src.relation # None THEN obj \o <<"#", src.relation>> ELSE obj

\* .reduce(|acc, x| acc + ", " + &x).unwrap_or_default() over rendered sources.
RECURSIVE join_srcs(_, _)
join_srcs(srcs, current) ==
    IF srcs = <<>> THEN <<>>
    ELSE IF Len(srcs) = 1 THEN render_src(srcs[1], current)
    ELSE join_srcs(SubSeq(srcs, 1, Len(srcs) - 1), current)
            \o <<",", " ">> \o render_src(srcs[Len(srcs)], current)

\* A plausible slip: a Set vertex without a persisted source gets no line.
vertex_lines_skip_empty(g, vertex, current, ord) ==
    LET block == <<vertex.namespace, vertex.id>>
        header == IF current # block
                  THEN << <<>>, <<"[", block[1], ":", block[2], "]">> >>
                  ELSE <<>>
        srcs == Iter({x \in g.edges_in[vertex] : x.id # WILDCARD_ID}, ord)
        rel_line == IF vertex.relation # None /\ srcs # <<>>
                    THEN << <<vertex.relation, " ", "=", " ", "[", " ">>
                            \o join_srcs(srcs, block) \o <<" ", "]">> >>
                    ELSE <<>>
    IN  header \o rel_line

\* The lines write_savefile emits for one vertex.
vertex_lines(g, vertex, current, ord) ==
    LET block == <<vertex.namespace, vertex.id>>
        header == IF current # block
                  THEN << <<>>, <<"[", block[1], ":", block[2], "]">> >>
                  ELSE <<>>
        srcs == Iter({x \in g.edges_in[vertex] : x.id # WILDCARD_ID}, ord)
        rel_line == IF vertex.relation # None
                    THEN << <<vertex.relation, " ", "=", " ", "[", " ">>
                            \o join_srcs(srcs, block) \o <<" ", "]">> >>
                    ELSE <<>>
    IN  header \o rel_line

\* The for loop of write_savefile over the store in its BTreeSet order.
RECURSIVE write_loop(_, _, _, _)
write_loop(g, todo, current, ord) ==
    IF todo = <<>> THEN <<>>
    ELSE vertex_lines(g, Head(todo), current, ord)
            \o write_loop(g, Tail(todo), <<Head(todo).namespace, Head(todo).id>>, ord)

\* RelationGraph::write_savefile: the lines written to the sink.
write_savefile(g, ord) ==
    write_loop(g, Iter(g.verticies, VertexOrder), <<"", "">>, ord)

\* write_savefile on a sink that accepts fail_after calls of write_all and
\* answers Err to the next one.  Every line of the model is one write_all
\* call, and each call is followed by .unwrap(): an Err panics the task.
\* The function returns (), so its only outcomes are a return and a panic.
write_savefile_to(g, ord, fail_after) ==
    LET lines == write_savefile(g, ord)
    IN  IF fail_after < Len(lines)
        THEN [outcome |-> "panicked", written |-> SubSeq(lines, 1, fail_after)]
        ELSE [outcome |-> "returned", written |-> lines]

\* str::find: the index of the first token equal to tok, 0 when there is none.
find(line, tok) ==
    IF \E i \in 1..Len(line) : line[i] = tok
    THEN CHOOSE i \in 1..Len(line) :
            line[i] = tok /\ \A j \in 1..(i - 1) : line[j] # tok
    ELSE 0

\* str::trim on tokens.
RECURSIVE trim(_)
trim(line) ==
    IF line = <<>> THEN line
    ELSE IF Head(line) = " " THEN trim(Tail(line))
    ELSE IF line[Len(line)] = " " THEN trim(SubSeq(line, 1, Len(line) - 1))
    ELSE line

\* str::split(':'): the pieces between the ":" tokens (at least one piece).
RECURSIVE split_colon(_)
split_colon(line) ==
    LET i == find(line, ":")
    IN  IF i = 0 THEN <<line>>
        ELSE <<SubSeq(line, 1, i - 1)>> \o split_colon(SubSeq(line, i + 1, Len(line)))

\* str::split(", "): the pieces between "," " " pairs (at least one piece,
\* the empty one for an empty payload).
RECURSIVE split_comma_space(_)
split_comma_space(line) ==
    IF \E i \in 1..(Len(line) - 1) : line[i] = "," /\ line[i + 1] = " "
    THEN LET i == CHOOSE i \in 1..(Len(line) - 1) :
                     /\ line[i] = "," /\ line[i + 1] = " "
                     /\ \A j \in 1..(i - 1) : ~(line[j] = "," /\ line[j + 1] = " ")
         IN  <<SubSeq(line, 1, i - 1)>>
                \o split_comma_space(SubSeq(line, i + 2, Len(line)))
    ELSE <<line>>

\* The text of a piece of tokens.
RECURSIVE text(_)
text(piece) == IF piece = <<>> THEN "" ELSE Head(piece) \o text(Tail(piece))

\* The source one token group of a relation line denotes inside the block dst.
parse_src(obj, dst) ==
    LET sep_1 == find(obj, ":")
        sep_2 == find(obj, "#")
    IN  IF sep_2 # 0
        THEN LET nsid == IF sep_1 # 0
                         THEN <<text(SubSeq(obj, 1, sep_1 - 1)),
                                text(SubSeq(obj, sep_1 + 1, sep_2 - 1))>>
                         ELSE dst
             IN  MkSet(nsid[1], nsid[2], text(SubSeq(obj, sep_2 + 1, Len(obj))))
        ELSE LET nsid == IF sep_1 # 0
                         THEN <<text(SubSeq(obj, 1, sep_1 - 1)),
                                text(SubSeq(obj, sep_1 + 1, Len(obj)))>>
                         ELSE dst
             IN  MkObject(nsid[1], nsid[2])

\* The for loop over the sources of a relation line: insert each into g.
RECURSIVE insert_srcs(_, _, _, _)
insert_srcs(g, arr, dst, rel) ==
    IF arr = <<>> THEN g
    ELSE insert_srcs(insert(g, parse_src(Head(arr), dst), MkSet(dst[1], dst[2], rel)),
                     Tail(arr), dst, rel)

\* One line of read_savefile.  st = [graph, vertex, panicked]; vertex is <<>>
\* for None and <<(namespace, id)>> for Some.
read_line(st, line) ==
    IF line # <<>> /\ Head(line) = "[" /\ line[Len(line)] = "]"
    THEN IF Len(line) < 2
         THEN [st EXCEPT !.panicked = TRUE]
         ELSE LET parts == split_colon(SubSeq(line, 2, Len(line) - 1))
              IN  IF Len(parts) < 2
                  THEN [st EXCEPT !.panicked = TRUE]
                  ELSE [st EXCEPT !.vertex = << <<text(parts[1]), text(parts[2])>> >>]
    ELSE IF find(line, "=") # 0 /\ find(line, "[") # 0 /\ find(line, "]") # 0
    THEN IF st.vertex = <<>> THEN st
         ELSE LET dst == st.vertex[1]
                  equals_pos == find(line, "=")
                  arr_start == find(line, "[")
                  arr_stop == find(line, "]")
                  rel == text(trim(SubSeq(line, 1, equals_pos - 1)))
              IN  IF arr_start + 1 > arr_stop
                  THEN [st EXCEPT !.panicked = TRUE]
                  ELSE LET arr == split_comma_space(
                                      trim(SubSeq(line, arr_start + 1, arr_stop - 1)))
                       IN  [st EXCEPT !.graph = insert_srcs(st.graph, arr, dst, rel)]
    ELSE st

\* The while loop of read_savefile; a panic ends it.
RECURSIVE read_loop(_, _)
read_loop(st, lines) ==
    IF lines = <<>> \/ st.panicked THEN st
    ELSE read_loop(read_line(st, Head(lines)), Tail(lines))

\* RelationGraph::read_savefile: the graph built from the lines.
read_savefile(lines) ==
    read_loop([graph |-> EmptyGraph, vertex |-> <<>>, panicked |-> FALSE], lines)

\* --------------------------------------------------- RelationSet variant
\* The variant of the store in src/src/relation_set.rs keeps tuples
\* (src, rel, dst) in two maps and has no wildcard vertices.  Its Object is
\* (namespace, id), its Set an (Object, Relation) pair; a pair is written
\* here as the id of the Set, and "*" is an id like any other.

\* u32::MAX, the limit is_related_to passes.  Its value 4294967295 is
\* beyond the integers of the model checker; a distance never exceeds the
\* number of pairs, so the largest integer there is stands for it.
U32_MAX == 2147483647

\* The key (Arc<Object>, Arc<Relation>) of a destination with a relation.
Pair(dst, rel) == MkSet(dst.namespace, dst.id, rel)

\* The two maps as one value.
RelationSet == [src_to_dst |-> src_to_dst, dst_to_src |-> dst_to_src]

\* RelationSet::new(): a key that is missing reads as an empty set.
EmptyRelationSet ==
    [src_to_dst |-> [s \in ObjectOrSet |-> [r \in Relations |-> {}]],
     dst_to_src |-> [d \in Object |-> [r \in Relations |-> {}]]]

\* RelationSet::insert.
rs_insert(rs, src, rel, dst) ==
    [rs EXCEPT !.src_to_dst[src][rel] = @ \cup {dst},
               !.dst_to_src[dst][rel] = @ \cup {src}]

\* RelationSet::remove.
rs_remove(rs, src, rel, dst) ==
    [rs EXCEPT !.src_to_dst[src][rel] = @ \ {dst},
               !.dst_to_src[dst][rel] = @ \ {src}]

\* RelationSet::has.
rs_has(rs, src, rel, dst) == dst \in rs.src_to_dst[src][rel]

\* The (relation, destination) pairs under src in src_to_dst, in the order
\* the nested iterators hand them out.
rs_neighbors(rs, src, ord) ==
    Iter(UNION {{Pair(d, r) : d \in rs.src_to_dst[src][r]} : r \in Relations}, ord)

\* dist.insert(key, value) on a map kept as a function.
map_insert(map, key, value) ==
    [k \in DOMAIN map \cup {key} |-> IF k = key THEN value ELSE map[k]]

\* Distanced::one(data).
Distanced_one(data) == [distance |-> 1, data |-> data]

\* q.pop(): an entry of the greatest distance, and the heap without it.
\* Entries of equal distance leave the heap in the order ord.
pop(q, ord) ==
    LET top == CHOOSE i \in 1..Len(q) :
                  /\ \A j \in 1..Len(q) : q[j].distance <= q[i].distance
                  /\ \A j \in 1..Len(q) :
                        q[j].distance = q[i].distance
                           => find(ord, q[i].data) <= find(ord, q[j].data)
    IN  [entry |-> q[top],
         rest |-> [i \in 1..(Len(q) - 1) |-> IF i < top THEN q[i] ELSE q[i + 1]]]

\* The for loop over the neighbours of the popped entry: the dist test
\* looks the popped entry up, not the neighbour.
RECURSIVE visit_neighbors(_, _, _, _, _)
visit_neighbors(st, distanced, neighbors, target, limit) ==
    IF neighbors = <<>> THEN st
    ELSE LET node_dist == distanced.distance + 1
             next == Head(neighbors)
         IN  IF next = target THEN [st EXCEPT !.found = TRUE]
             ELSE IF /\ distanced.data \in DOMAIN st.dist
                     /\ \/ st.dist[distanced.data] <= node_dist
                        \/ node_dist >= limit
             THEN visit_neighbors(st, distanced, Tail(neighbors), target, limit)
             ELSE visit_neighbors(
                      [st EXCEPT !.dist = map_insert(@, next, node_dist),
                                 !.q = Append(@, Distanced_one(next))],
                      distanced, Tail(neighbors), target, limit)

\* The while loop of has_recursive.
RECURSIVE search(_, _, _, _, _)
search(rs, st, target, limit, ord) ==
    IF st.found THEN TRUE
    ELSE IF st.q = <<>> THEN FALSE
    ELSE LET p == pop(st.q, ord)
         IN  search(rs,
                    visit_neighbors([st EXCEPT !.q = p.rest], p.entry,
                                    rs_neighbors(rs, p.entry.data, ord),
                                    target, limit),
                    target, limit, ord)

\* The first for loop of has_recursive: the neighbours of src.
RECURSIVE seed(_, _, _)
seed(st, neighbors, target) ==
    IF neighbors = <<>> THEN st
    ELSE IF Head(neighbors) = target THEN [st EXCEPT !.found = TRUE]
    ELSE seed([st EXCEPT !.dist = map_insert(@, Head(neighbors), 1),
                         !.q = Append(@, Distanced_one(Head(neighbors)))],
              Tail(neighbors), target)

\* RelationSet::has_recursive.
has_recursive(rs, src, rel, dst, limit, ord) ==
    search(rs,
           seed([dist |-> <<>>, q |-> <<>>, found |-> FALSE],
                rs_neighbors(rs, src, ord), Pair(dst, rel)),
           Pair(dst, rel), limit, ord)

\* RelationSet::new().
InitRelationSet ==
    /\ src_to_dst = EmptyRelationSet.src_to_dst
    /\ dst_to_src = EmptyRelationSet.dst_to_src

\* -------------------------------------------------------------- behaviour
\* The tasks that call into the store concurrently.
Tasks == {"t1", "t2", "t3"}

\* No operation chosen.
NoCall == [kind |-> "none"]

\* The local variables of an operation before it has set any: the updates a
\* mutator still has to make (todo), the vertex handles it resolved
\* (handles), neighbors, next_neighbors, visited and distance of a traversal,
\* expanded_verticies of expand, current of write_savefile with the lines
\* written to the sink, and the value returned: <<>> before the return,
\* then Some(value).
NoLocals ==
    [todo |-> <<>>, handles |-> <<>>, neighbors |-> <<>>,
     next_neighbors |-> <<>>, visited |-> {}, distance |-> 0,
     expanded_verticies |-> <<>>, current |-> <<"", "">>, written |-> <<>>,
     result |-> <<>>]

\* RelationGraph::default() and no call made.
InitStore ==
    /\ verticies = EmptyGraph.verticies
    /\ edges_in = EmptyGraph.edges_in
    /\ edges_out = EmptyGraph.edges_out
    /\ nops = 0

\* No file is being read.
InitNoLoad ==
    /\ input = <<>>
    /\ rd_vertex = <<>>
    /\ panicked = FALSE

\* No task has started; the store lock is free.
InitNoTasks ==
    /\ pc = [t \in Tasks |-> "idle"]
    /\ call = [t \in Tasks |-> NoCall]
    /\ loc = [t \in Tasks |-> NoLocals]
    /\ store_readers = [t \in Tasks |-> 0]
    /\ store_writer = {}
    /\ store_queue = <<>>

Init == InitStore /\ InitNoLoad /\ InitNoTasks /\ InitRelationSet

\* The live graph becomes g.
Becomes(g) ==
    /\ verticies' = g.verticies
    /\ edges_in' = g.edges_in
    /\ edges_out' = g.edges_out

\* A call of insert(src, dst).
Insert(src, dst) ==
    /\ nops < MaxOps
    /\ Becomes(insert(Graph, src, dst))
    /\ nops' = nops + 1
    /\ UNCHANGED <<loadVars, setVars, concVars>>

\* A call of remove(src, dst).
Remove(src, dst) ==
    /\ nops < MaxOps
    /\ Becomes(remove(Graph, src, dst))
    /\ nops' = nops + 1
    /\ UNCHANGED <<loadVars, setVars, concVars>>

Next ==
    \E src \in ObjectOrSet, dst \in Set :
        \/ Insert(src, dst)
        \/ Remove(src, dst)

Spec == Init /\ [][Next]_vars

\* The graphs built by insert calls alone.
NextInsertOnly == \E src \in ObjectOrSet, dst \in Set : Insert(src, dst)

SpecInsertOnly == Init /\ [][NextInsertOnly]_vars

\* The graphs built without any call insert(x, x).
NextNoSelfInsert ==
    \E src \in ObjectOrSet, dst \in Set :
        \/ src # dst /\ Insert(src, dst)
        \/ Remove(src, dst)

SpecNoSelfInsert == Init /\ [][NextNoSelfInsert]_vars

\* ------------------------------------------------- loading a save file
\* The lines a file is made of: well-formed headers and relation lines, a
\* line the format does not know, and malformed ones.
InputLines ==
    { <<"[", "g", ":", "a", "]">>,
      <<"[", "u", ":", "a", "]">>,
      <<"r", " ", "=", " ", "[", " ", "u", ":", "a", " ", "]">>,
      <<"r", " ", "=", " ", "[", " ", "self", "#", "r", ",", " ", "g", ":", "*", " ", "]">>,
      <<"r", " ", "=", " ", "[", " ", " ", "]">>,
      <<>>,
      <<"#", " ", "a">>,
      <<"[", "g", "]">>,
      <<"r", " ", "=", " ", "]", " ", "[">> }

\* The files of at most MaxLines lines.
InputFiles ==
    UNION {[1..n -> InputLines] : n \in 0..MaxLines}

\* read_savefile is called on a file: a fresh graph, vertex = None.
InitLoad ==
    /\ InitStore
    /\ input \in InputFiles
    /\ rd_vertex = <<>>
    /\ panicked = FALSE
    /\ InitNoTasks
    /\ InitRelationSet

\* One turn of the while loop of read_savefile: the next line is read.
ReadLine ==
    /\ input # <<>>
    /\ ~panicked
    /\ LET st == read_line([graph |-> Graph, vertex |-> rd_vertex,
                            panicked |-> FALSE], Head(input))
       IN  /\ Becomes(st.graph)
           /\ rd_vertex' = st.vertex
           /\ panicked' = st.panicked
    /\ input' = Tail(input)
    /\ UNCHANGED <<nops, concVars, setVars>>

NextLoad == ReadLine

SpecLoad == InitLoad /\ [][NextLoad]_vars

\* --------------------------------------------------- concurrent callers
\* Tasks call the operations on one shared RelationGraph.  A task is
\* suspended only at an .await, and every .await of the library is a lock
\* acquisition: of the store lock (RelationGraph.verticies) or of one edge
\* set of one vertex.  A guard on an edge set is a temporary dropped in the
\* statement that took it, with no other .await while it is held (the
\* isolation test of remove holds a read guard of edges_in while it reads
\* edges_out of the same vertex, and only the holder of the store write
\* guard takes an edge set in write mode), so an edge-set lock is always
\* released without waiting for anything: each such acquisition is a step
\* boundary below.  The store lock is modelled in full: tokio's RwLock
\* serves its waiters in FIFO order, so a writer waiting at the head of the
\* queue keeps the readers that came after it waiting.

\* Number of calls the tasks make in one behaviour.
MaxCalls == 3

\* The arguments of the concurrent calls: a chain a -> S -> D, and the
\* grant of S to every Object of a's namespace.
ConcObject == MkObject("u", "a")
ConcWildcard == MkObject("u", WILDCARD_ID)
ConcSet == MkSet("g", "a", "r")
ConcDst == MkSet("u", "a", "r")

Call(kind, src, dst) == [kind |-> kind, src |-> src, dst |-> dst]

\* The calls a task may make.  expand reads dst alone and write_savefile
\* neither field; check is called without a limit.
Calls ==
    { Call("insert", ConcObject, ConcSet),
      Call("insert", ConcWildcard, ConcSet),
      Call("insert", ConcSet, ConcDst),
      Call("remove", ConcObject, ConcSet),
      Call("has", ConcObject, ConcSet),
      Call("check", ConcObject, ConcDst),
      Call("expand", ConcDst, ConcDst),
      Call("write_savefile", ConcDst, ConcDst) }

\* The calls of callers that insert (a, S) and never take it back: the
\* tuple S -> D comes and goes beside it, and has and check ask for (a, S).
CallsKeepingTuple ==
    { Call("insert", ConcObject, ConcSet),
      Call("insert", ConcWildcard, ConcSet),
      Call("insert", ConcSet, ConcDst),
      Call("remove", ConcSet, ConcDst),
      Call("has", ConcObject, ConcSet),
      Call("check", ConcObject, ConcSet),
      Call("expand", ConcDst, ConcDst),
      Call("write_savefile", ConcDst, ConcDst) }

\* A plausible slip: insert takes the store lock with verticies.read().
store_mode_insert_reads(kind) ==
    IF kind = "remove" THEN "write" ELSE "read"

\* A plausible slip: remove takes the store lock in read mode.
store_mode_remove_reads(kind) ==
    IF kind = "insert" THEN "write" ELSE "read"

\* The mode in which an operation takes the store lock: verticies.write()
\* in insert and remove, verticies.read() in the others.
store_mode(kind) ==
    IF kind \in {"insert", "remove"} THEN "write" ELSE "read"

\* The lock can be handed out in this mode: no writer holds it, and for a
\* writer no reader either.
store_free_for(mode) ==
    /\ store_writer = {}
    /\ mode = "write" => \A t \in Tasks : store_readers[t] = 0

\* Task t is at the head of the queue and the lock can be handed to it.
Granted(t) ==
    /\ store_queue # <<>>
    /\ Head(store_queue)[1] = t
    /\ store_free_for(Head(store_queue)[2])

\* The guards after t was handed the one it waits for at the head of the
\* queue.
writer_with(t) ==
    IF Head(store_queue)[2] = "write" THEN store_writer \cup {t} ELSE store_writer

readers_with(t) ==
    IF Head(store_queue)[2] = "read"
    THEN [store_readers EXCEPT ![t] = @ + 1]
    ELSE store_readers

\* The guards after t dropped all of its own.
writer_without(t) == store_writer \ {t}
readers_without(t) == [store_readers EXCEPT ![t] = 0]

\* A handle (Arc<Vertex>) held by a task outside the store lock.  It keeps
\* the vertex alive after remove took it out of the store; such a vertex
\* has no edges and never gets any, and a later insert of the same id makes
\* a new vertex.  live says that the handle refers to the vertex the store
\* has under this id.
Handle(v) == [id |-> v, live |-> TRUE, path |-> <<>>]

\* handle.edges_out and handle.edges_in as the task reads them.
out_of(handle) == IF handle.live THEN edges_out[handle.id] ELSE {}
in_of(handle) == IF handle.live THEN edges_in[handle.id] ELSE {}

\* The handles of a task once the vertices in gone have left the store.
outlive(l, gone) ==
    LET mark(hs) ==
            [i \in 1..Len(hs) |->
                IF hs[i].id \in gone THEN [hs[i] EXCEPT !.live = FALSE] ELSE hs[i]]
    IN  [l EXCEPT !.handles = mark(@),
                  !.neighbors = mark(@),
                  !.next_neighbors = mark(@)]

\* A plausible slip: add_edge records the edge in to.edges_in alone.
add_edge_steps_in_only(from, to) ==
    << [op |-> "in", from |-> from, to |-> to] >>

\* The half-steps of add_edge(from, to): the edge is put into from.edges_out
\* (behind edges_out.read() and edges_out.write()), then into to.edges_in.
add_edge_steps(from, to) ==
    << [op |-> "out", from |-> from, to |-> to],
       [op |-> "in", from |-> from, to |-> to] >>

\* The edge updates of insert after its four get_or_create, in program
\* order.
insert_steps(src, dst) ==
    (IF src.relation = None /\ src.id # WILDCARD_ID
     THEN add_edge_steps(src, wildcard_of(src))
     ELSE IF src.relation # None
          THEN add_edge_steps(wildcard_of(src), src)
          ELSE <<>>)
    \o add_edge_steps(wildcard_of(dst), dst)
    \o add_edge_steps(src, dst)

\* The updates of remove when both endpoints are in the store.
remove_steps(src, dst) ==
    << [op |-> "retain_out", from |-> src, to |-> dst],
       [op |-> "retain_in", from |-> src, to |-> dst],
       [op |-> "collect", from |-> src, to |-> src],
       [op |-> "collect", from |-> dst, to |-> dst] >>

\* The effect of one update on the graph.
mutate(g, step) ==
    CASE step.op = "out" ->
            [g EXCEPT !.edges_out[step.from] = @ \cup {step.to}]
      [] step.op = "in" ->
            [g EXCEPT !.edges_in[step.to] = @ \cup {step.from}]
      [] step.op = "retain_out" ->
            [g EXCEPT !.edges_out[step.from] = @ \ {step.to}]
      [] step.op = "retain_in" ->
            [g EXCEPT !.edges_in[step.to] = @ \ {step.from}]
      [] step.op = "collect" -> remove_if_isolated(g, step.from)

\* The graph after the four get_or_create calls of insert.
insert_vertices(g, src, dst) ==
    get_or_create(
        get_or_create(
            get_or_create(get_or_create(g, wildcard_of(src)), src),
            wildcard_of(dst)),
        dst)

\* Task t goes on to the suspension point at with locals l; no vertex
\* leaves the store.
Goto(t, at, l) ==
    /\ pc' = [pc EXCEPT ![t] = at]
    /\ loc' = [loc EXCEPT ![t] = l]

\* Task t returns result.
Return(t, result) ==
    Goto(t, "done", [NoLocals EXCEPT !.result = Some(result)])

\* Some task's insert(src, dst) has returned and is the last call of that
\* task: what a caller can have observed before it makes its own call.
InsertReturned(src, dst) ==
    \E u \in Tasks :
        /\ pc[u] = "done" /\ call[u].kind = "insert"
        /\ call[u].src = src /\ call[u].dst = dst

\* A task calls an operation: its first .await is on the store lock.  The
\* call keeps, next to its arguments, whether an insert of the same tuple
\* was seen to return before it.
Start(t, c) ==
    /\ pc[t] \in {"idle", "done", "cancelled"}
    /\ nops < MaxCalls
    /\ nops' = nops + 1
    /\ call' = [call EXCEPT ![t] =
                    [kind |-> c.kind, src |-> c.src, dst |-> c.dst,
                     after_insert |-> InsertReturned(c.src, c.dst)]]
    /\ store_queue' = Append(store_queue, <<t, store_mode(c.kind)>>)
    /\ Goto(t, "store_lock", NoLocals)
    /\ UNCHANGED <<graphVars, loadVars, setVars, store_readers, store_writer>>

\* insert got the write guard: the four vertices are looked up or created,
\* and the task reaches the first .await of add_edge.
InsertLocked(t) ==
    /\ pc[t] = "store_lock" /\ call[t].kind = "insert"
    /\ Granted(t)
    /\ store_writer' = writer_with(t)
    /\ store_readers' = readers_with(t)
    /\ store_queue' = Tail(store_queue)
    /\ Becomes(insert_vertices(Graph, call[t].src, call[t].dst))
    /\ Goto(t, "add_edge",
            [NoLocals EXCEPT !.todo = insert_steps(call[t].src, call[t].dst)])
    /\ UNCHANGED <<nops, loadVars, setVars, call>>

\* One update of insert or remove under the guard it took; the guard is
\* dropped when the function returns after the last one.  The handles other
\* tasks hold to a vertex taken out of the store stay with the old vertex.
MutatorStep(t, at) ==
    LET g == mutate(Graph, Head(loc[t].todo))
        gone == verticies \ g.verticies
        last == Len(loc[t].todo) = 1
    IN  /\ pc[t] = at
        /\ Becomes(g)
        /\ pc' = [pc EXCEPT ![t] = IF last THEN "done" ELSE at]
        /\ loc' = [u \in Tasks |->
                     IF u # t THEN outlive(loc[u], gone)
                     ELSE IF last THEN [NoLocals EXCEPT !.result = Some("()")]
                     ELSE [loc[t] EXCEPT !.todo = Tail(@)]]
        /\ store_writer' = IF last THEN writer_without(t) ELSE store_writer
        /\ store_readers' = IF last THEN readers_without(t) ELSE store_readers
        /\ UNCHANGED <<nops, loadVars, setVars, call, store_queue>>

\* A step of add_edge in insert.
InsertAddEdge(t) == MutatorStep(t, "add_edge")

\* remove got the write guard and looked both endpoints up: with one of
\* them missing it returns at once and drops the guard, else it reaches the
\* .await of src.edges_out.write().
RemoveLocked(t) ==
    LET found == call[t].src \in verticies /\ call[t].dst \in verticies
    IN  /\ pc[t] = "store_lock" /\ call[t].kind = "remove"
        /\ Granted(t)
        /\ store_queue' = Tail(store_queue)
        /\ store_writer' = IF found THEN writer_with(t) ELSE store_writer
        /\ store_readers' = IF found THEN readers_with(t) ELSE store_readers
        /\ IF found
           THEN Goto(t, "retain",
                     [NoLocals EXCEPT
                         !.todo = remove_steps(call[t].src, call[t].dst)])
           ELSE Return(t, "()")
        /\ UNCHANGED <<nops, graphVars, loadVars, setVars, call>>

\* A step of remove on the edge sets or the store.
RemoveStep(t) == MutatorStep(t, "retain")

\* has got the read guard, looked both endpoints up and dropped the guard
\* at the end of the block: with one of them missing it returns false, else
\* it reaches the .await of src.edges_out.read().
HasLocked(t) ==
    LET found == call[t].src \in verticies /\ call[t].dst \in verticies
    IN  /\ pc[t] = "store_lock" /\ call[t].kind = "has"
        /\ Granted(t)
        /\ store_queue' = Tail(store_queue)
        /\ IF found
           THEN Goto(t, "has_edges",
                     [NoLocals EXCEPT
                         !.handles = <<Handle(call[t].src), Handle(call[t].dst)>>])
           ELSE Return(t, FALSE)
        /\ UNCHANGED <<nops, graphVars, loadVars, setVars, call, store_readers, store_writer>>

\* src.edges_out.read().await.contains(&dst): handles compare by id.
HasEdges(t) ==
    /\ pc[t] = "has_edges"
    /\ Return(t, loc[t].handles[2].id \in out_of(loc[t].handles[1]))
    /\ UNCHANGED <<nops, graphVars, loadVars, setVars, call,
                   store_readers, store_writer, store_queue>>

\* The handles collected from an edge set, each with the path given.
collect(set, path, ord) ==
    LET it == Iter(set, ord)
    IN  [i \in 1..Len(it) |-> [id |-> it[i], live |-> TRUE, path |-> path]]

\* check runs on from the head of a level to its next .await
\* (neighbor.edges_out.read() of the first neighbour neither skipped nor
\* matching) or to its return.
RECURSIVE check_for(_, _, _)
check_for(l, dst, limit) ==
    IF l.neighbors = <<>>
    THEN LET m == [l EXCEPT !.neighbors = l.next_neighbors,
                            !.next_neighbors = <<>>,
                            !.distance = @ + 1]
         IN  IF m.neighbors = <<>> THEN [NoLocals EXCEPT !.result = Some(FALSE)]
             ELSE IF limit # NoLimit /\ m.distance > limit[1]
             THEN [NoLocals EXCEPT !.result = Some(FALSE)]
             ELSE check_for(m, dst, limit)
    ELSE LET neighbor == Head(l.neighbors)
         IN  IF l.distance > 1 /\ neighbor.id \in l.visited
             THEN check_for([l EXCEPT !.neighbors = Tail(@)], dst, limit)
             ELSE IF dst_match(neighbor.id, dst)
             THEN [NoLocals EXCEPT !.result = Some(TRUE)]
             ELSE l

\* check from the collection of the first neighbours to its next .await.
check_while(neighbors, dst, limit) ==
    IF neighbors = <<>> THEN [NoLocals EXCEPT !.result = Some(FALSE)]
    ELSE IF limit # NoLimit /\ 1 > limit[1] THEN [NoLocals EXCEPT !.result = Some(FALSE)]
    ELSE check_for([NoLocals EXCEPT !.neighbors = neighbors, !.distance = 1],
                   dst, limit)

\* Task t goes on with the locals l of a traversal: it has returned when l
\* carries a result, else it is at the .await named at.
Continue(t, at, l) ==
    Goto(t, IF l.result = <<>> THEN at ELSE "done", l)

\* check got the read guard in the scrutinee of its `if let`.  The guard is
\* a temporary of the scrutinee, so it lives until the end of the whole
\* `if let ... else ...`: with the source in the store, across the .await
\* of src.edges_out.read(); with no such vertex, across the else block,
\* whose first .await is a second verticies.read().
CheckLocked(t) ==
    /\ pc[t] = "store_lock" /\ call[t].kind = "check"
    /\ Granted(t)
    /\ store_writer' = writer_with(t)
    /\ store_readers' = readers_with(t)
    /\ IF call[t].src \in verticies
       THEN /\ store_queue' = Tail(store_queue)
            /\ Goto(t, "check_src_edges",
                    [NoLocals EXCEPT !.handles = <<Handle(call[t].src)>>])
       ELSE /\ store_queue' = Append(Tail(store_queue), <<t, "read">>)
            /\ Goto(t, "check_store_lock_2", NoLocals)
    /\ UNCHANGED <<nops, graphVars, loadVars, setVars, call>>

\* The first neighbours are collected from the edges_out of the vertex
\* resolved, the statement ends and drops the store guards, and check runs
\* on to its next .await.
CheckEdges(t, at) ==
    /\ pc[t] = at
    /\ \E ord \in IterOrders :
          Continue(t, "check_visit",
                   check_while(collect(out_of(loc[t].handles[1]), <<>>, ord),
                               call[t].dst, NoLimit))
    /\ store_writer' = writer_without(t)
    /\ store_readers' = readers_without(t)
    /\ UNCHANGED <<nops, graphVars, loadVars, setVars, call, store_queue>>

CheckSrcEdges(t) == CheckEdges(t, "check_src_edges")

\* The second verticies.read() of check, for the Object wildcard of the
\* source's namespace, is granted while the first guard is still held.
\* Without that vertex check returns false and drops both guards.
CheckLockedAgain(t) ==
    /\ pc[t] = "check_store_lock_2"
    /\ Granted(t)
    /\ store_queue' = Tail(store_queue)
    /\ IF wildcard_src(call[t].src) \in verticies
       THEN /\ store_writer' = writer_with(t)
            /\ store_readers' = readers_with(t)
            /\ Goto(t, "check_wildcard_edges",
                    [NoLocals EXCEPT
                        !.handles = <<Handle(wildcard_src(call[t].src))>>])
       ELSE /\ store_writer' = writer_without(t)
            /\ store_readers' = readers_without(t)
            /\ Return(t, FALSE)
    /\ UNCHANGED <<nops, graphVars, loadVars, setVars, call>>

CheckWildcardEdges(t) == CheckEdges(t, "check_wildcard_edges")

\* neighbor.edges_out.read(): the out-neighbours of the head of the level
\* are appended to next_neighbors, the head is visited, and check runs on.
CheckVisit(t) ==
    /\ pc[t] = "check_visit"
    /\ \E ord \in IterOrders :
          LET neighbor == Head(loc[t].neighbors)
          IN  Continue(t, "check_visit",
                  check_for([loc[t] EXCEPT
                                !.neighbors = Tail(@),
                                !.next_neighbors =
                                    @ \o collect(out_of(neighbor), <<>>, ord),
                                !.visited = @ \cup {neighbor.id}],
                            call[t].dst, NoLimit))
    /\ UNCHANGED <<nops, graphVars, loadVars, setVars, call,
                   store_readers, store_writer, store_queue>>

\* expand runs on from the head of a level to its next .await
\* (neighbor.edges_in.read() of the first Set not visited) or to its return.
RECURSIVE expand_for(_)
expand_for(l) ==
    IF l.neighbors = <<>>
    THEN IF l.next_neighbors = <<>>
         THEN [NoLocals EXCEPT
                  !.result = Some([i \in 1..Len(l.expanded_verticies) |->
                                      <<l.expanded_verticies[i].id,
                                        l.expanded_verticies[i].path>>])]
         ELSE expand_for([l EXCEPT !.neighbors = l.next_neighbors,
                                   !.next_neighbors = <<>>])
    ELSE LET neighbor == Head(l.neighbors)
         IN  IF neighbor.id \in l.visited
             THEN expand_for([l EXCEPT !.neighbors = Tail(@)])
             ELSE IF neighbor.id.relation = None
             THEN expand_for([l EXCEPT !.neighbors = Tail(@),
                                       !.expanded_verticies = Append(@, neighbor)])
             ELSE l

\* expand got the read guard, resolved its start vertex and dropped the
\* guard at the end of the block: without a start vertex it returns the
\* empty list, else it reaches the .await of start_vertex.edges_in.read().
ExpandLocked(t) ==
    LET start == start_vertex(Graph, call[t].dst)
    IN  /\ pc[t] = "store_lock" /\ call[t].kind = "expand"
        /\ Granted(t)
        /\ store_queue' = Tail(store_queue)
        /\ IF start = <<>>
           THEN Return(t, <<>>)
           ELSE Goto(t, "expand_start_edges",
                     [NoLocals EXCEPT !.handles = <<Handle(start[1])>>])
        /\ UNCHANGED <<nops, graphVars, loadVars, setVars, call, store_readers, store_writer>>

\* The first neighbours are collected from start_vertex.edges_in with the
\* path [start_vertex], the start vertex is visited, and expand runs on.
ExpandStartEdges(t) ==
    /\ pc[t] = "expand_start_edges"
    /\ \E ord \in IterOrders :
          LET start == loc[t].handles[1]
          IN  Continue(t, "expand_visit",
                  expand_for([NoLocals EXCEPT
                                 !.neighbors =
                                     collect(in_of(start), <<start.id>>, ord),
                                 !.visited = {start.id}]))
    /\ UNCHANGED <<nops, graphVars, loadVars, setVars, call,
                   store_readers, store_writer, store_queue>>

\* neighbor.edges_in.read(): the in-neighbours of the Set at the head of
\* the level are appended to next_neighbors with the path extended by it,
\* the Set is visited, and expand runs on.
ExpandVisit(t) ==
    /\ pc[t] = "expand_visit"
    /\ \E ord \in IterOrders :
          LET neighbor == Head(loc[t].neighbors)
              neighbor_path == Append(neighbor.path, neighbor.id)
          IN  Continue(t, "expand_visit",
                  expand_for([loc[t] EXCEPT
                                 !.neighbors = Tail(@),
                                 !.next_neighbors =
                                     @ \o collect(in_of(neighbor), neighbor_path, ord),
                                 !.visited = @ \cup {neighbor.id}]))
    /\ UNCHANGED <<nops, graphVars, loadVars, setVars, call,
                   store_readers, store_writer, store_queue>>

\* write_savefile got the read guard as a temporary of the iterator
\* expression of its `for`: it is held until the loop is over.  On an empty
\* store the function returns at once.
WriteLocked(t) ==
    /\ pc[t] = "store_lock" /\ call[t].kind = "write_savefile"
    /\ Granted(t)
    /\ store_queue' = Tail(store_queue)
    /\ IF verticies = {}
       THEN /\ Return(t, "()")
            /\ UNCHANGED <<store_readers, store_writer>>
       ELSE /\ Goto(t, "write_vertex",
                    [NoLocals EXCEPT !.todo = Iter(verticies, VertexOrder)])
            /\ store_writer' = writer_with(t)
            /\ store_readers' = readers_with(t)
    /\ UNCHANGED <<nops, graphVars, loadVars, setVars, call>>

\* One iteration of the loop of write_savefile: the lines of one vertex go
\* to the sink (a buffer that takes every write); the guard is dropped
\* after the last iteration.
WriteVertex(t) ==
    LET vertex == Head(loc[t].todo)
        last == Len(loc[t].todo) = 1
    IN  /\ pc[t] = "write_vertex"
        /\ \E ord \in IterOrders :
              LET written == loc[t].written
                                \o vertex_lines(Graph, vertex, loc[t].current, ord)
              IN  IF last
                  THEN Goto(t, "done", [NoLocals EXCEPT !.result = Some("()"),
                                                        !.written = written])
                  ELSE Goto(t, "write_vertex",
                            [loc[t] EXCEPT
                                !.todo = Tail(@),
                                !.current = <<vertex.namespace, vertex.id>>,
                                !.written = written])
        /\ store_writer' = IF last THEN writer_without(t) ELSE store_writer
        /\ store_readers' = IF last THEN readers_without(t) ELSE store_readers
        /\ UNCHANGED <<nops, graphVars, loadVars, setVars, call, store_queue>>

\* The tasks in the middle of a call.
Running(t) == pc[t] \notin {"idle", "done", "cancelled"}

\* The future of a call is dropped at the .await it is suspended at: its
\* request for the store lock leaves the queue, and the guards it holds are
\* dropped with its locals.
Cancel(t) ==
    /\ Running(t)
    /\ pc' = [pc EXCEPT ![t] = "cancelled"]
    /\ loc' = [loc EXCEPT ![t] = NoLocals]
    /\ store_queue' = SelectSeq(store_queue, LAMBDA w : w[1] # t)
    /\ store_writer' = writer_without(t)
    /\ store_readers' = readers_without(t)
    /\ UNCHANGED <<nops, graphVars, loadVars, setVars, call>>

\* A step of a call that is under way.
Proceed(t) ==
    \/ InsertLocked(t)
    \/ InsertAddEdge(t)
    \/ RemoveLocked(t)
    \/ RemoveStep(t)
    \/ HasLocked(t)
    \/ HasEdges(t)
    \/ CheckLocked(t)
    \/ CheckSrcEdges(t)
    \/ CheckLockedAgain(t)
    \/ CheckWildcardEdges(t)
    \/ CheckVisit(t)
    \/ ExpandLocked(t)
    \/ ExpandStartEdges(t)
    \/ ExpandVisit(t)
    \/ WriteLocked(t)
    \/ WriteVertex(t)

\* A step of one task.
TaskStep(t) ==
    \/ \E c \in Calls : Start(t, c)
    \/ Proceed(t)

\* Calls that all run to their return.
NextConc == \E t \in Tasks : TaskStep(t)

SpecConc == Init /\ [][NextConc]_vars

\* Calls of callers that never remove the tuple (a, S).
NextKeepingTuple ==
    \E t \in Tasks : (\E c \in CallsKeepingTuple : Start(t, c)) \/ Proceed(t)

SpecKeepingTuple == Init /\ [][NextKeepingTuple]_vars

\* Calls that their callers may cancel.  A cancelled mutator can leave an
\* edge set referring to a vertex that a later remove takes out of the
\* store, so the ids stand for the handles (HandlesAreIds) only up to the
\* first state that breaks the data-model invariants.
NextCancel == \E t \in Tasks : TaskStep(t) \/ Cancel(t)

SpecCancel == Init /\ [][NextCancel]_vars

\* ------------------------------------------- calls on the RelationSet
\* A call of RelationSet::insert(src, rel, dst).
RsInsert(src, rel, dst) ==
    /\ nops < MaxOps
    /\ nops' = nops + 1
    /\ LET rs == rs_insert(RelationSet, src, rel, dst)
       IN  /\ src_to_dst' = rs.src_to_dst
           /\ dst_to_src' = rs.dst_to_src
    /\ UNCHANGED <<graphVars, loadVars, concVars>>

\* A call of RelationSet::remove(src, rel, dst).
RsRemove(src, rel, dst) ==
    /\ nops < MaxOps
    /\ nops' = nops + 1
    /\ LET rs == rs_remove(RelationSet, src, rel, dst)
       IN  /\ src_to_dst' = rs.src_to_dst
           /\ dst_to_src' = rs.dst_to_src
    /\ UNCHANGED <<graphVars, loadVars, concVars>>

NextRelationSet ==
    \E src \in ObjectOrSet, rel \in Relations, dst \in Object :
        \/ RsInsert(src, rel, dst)
        \/ RsRemove(src, rel, dst)

SpecRelationSet == Init /\ [][NextRelationSet]_vars

\* ----------------------------------------------------- graph vocabulary
\* Reachability stated on the edge relation alone, for the properties below.
RECURSIVE Closure(_, _)
Closure(g, S) ==
    LET T == S \cup UNION {g.edges_out[v] : v \in S}
    IN  IF T = S THEN S ELSE Closure(g, T)

\* The vertices at the end of a path of length >= 1 from s.
ReachPlus(g, s) == Closure(g, g.edges_out[s])

\* The vertices at the end of a path from s of length between 1 and k.
RECURSIVE ReachWithin(_, _, _)
ReachWithin(g, s, k) ==
    IF k = 0 THEN {}
    ELSE LET W == ReachWithin(g, s, k - 1)
         IN  g.edges_out[s] \cup W \cup UNION {g.edges_out[v] : v \in W}

\* v is dst, or the wildcard Set of dst's namespace and relation.
Matches(v, dst) ==
    \/ v = dst
    \/ v = [namespace |-> dst.namespace, id |-> "*", relation |-> dst.relation]

\* A path of length >= 1 leads from s to a vertex matching dst.
Reaches(g, s, dst) == \E v \in ReachPlus(g, s) : Matches(v, dst)

\* The vertex check starts from: src, else the fallback wildcard, else none.
Resolved(g, src) ==
    IF src \in g.verticies THEN {src}
    ELSE IF wildcard_src(src) \in g.verticies THEN {wildcard_src(src)}
    ELSE {}

\* ----------------------------------------------------------------- claims
\* C1: for a source whose vertex is in the store, check(src, dst, None) is
\* true exactly when a path of length >= 1 over edges_out leads from src to
\* dst or to the wildcard Set of dst's namespace and relation; a source that
\* itself matches dst does not count.
C1_CheckIsReachability ==
    \A src \in verticies, dst \in Set :
        check(Graph, src, dst, NoLimit) <=> Reaches(Graph, src, dst)

\* C1 witness: a check answered true over a path of length >= 2 only, and a
\* source in the store that matches dst itself and is answered false.
C1_Witness ==
    /\ \E src \in verticies, dst \in Set :
          /\ check(Graph, src, dst, NoLimit)
          /\ \A v \in edges_out[src] : ~Matches(v, dst)
    /\ \E x \in verticies \cap Set : ~check(Graph, x, x, NoLimit)

\* C2: while the tuple (ns, "*") -> d of an Object wildcard source is in the
\* graph, check((ns, X), d, None) is true for every id X, with or without a
\* vertex for (ns, X).
C2_SourceWildcard ==
    \A ns \in Namespaces, d \in Set :
        has(Graph, MkObject(ns, WILDCARD_ID), d)
            => \A X \in Ids : check(Graph, MkObject(ns, X), d, NoLimit)

\* C2 witness: the wildcard tuples of two namespaces are present; the id
\* asked about has no vertex in one namespace, and in the other it has a
\* vertex that holds no tuple to d of its own.
C2_Witness ==
    \E ns \in Namespaces, d \in Set :
        /\ has(Graph, MkObject(ns, WILDCARD_ID), d)
        /\ nops >= 2
        /\ MkObject(ns, "a") \notin verticies
        /\ check(Graph, MkObject(ns, "a"), d, NoLimit)
        /\ \E m \in Namespaces \ {ns} :
              /\ has(Graph, MkObject(m, WILDCARD_ID), d)
              /\ MkObject(m, "a") \in verticies
              /\ ~has(Graph, MkObject(m, "a"), d)
              /\ check(Graph, MkObject(m, "a"), d, NoLimit)

\* The wildcard vertices a source of namespace ns and kind rel can stand for.
NamespaceWildcards(s) == {MkObject(s.namespace, WILDCARD_ID), wildcard_of(s)}

\* C3: while the tuple s -> (ns, "*", rel) is in the graph,
\* check(s, (ns, Y, rel), None) is true for every id Y, with or without a
\* vertex for (ns, Y, rel); and a source from which no path leads to
\* (ns, "*", rel) or (ns, Y, rel), neither from its own vertex nor from a
\* wildcard vertex of its namespace, is answered false.
C3_DestinationWildcard ==
    \A w \in {d \in Set : d.id = WILDCARD_ID}, Y \in Ids :
        LET dY == MkSet(w.namespace, Y, w.relation)
        IN  /\ \A s \in ObjectOrSet :
                  has(Graph, s, w) => check(Graph, s, dY, NoLimit)
            /\ \A t \in ObjectOrSet :
                  (\A u \in {t} \cup NamespaceWildcards(t) : ~Reaches(Graph, u, dY))
                      => ~check(Graph, t, dY, NoLimit)

\* C3 witness: s holds the wildcard tuple, (ns, a, rel) has no vertex and is
\* answered true for s, and another source of s's namespace that is in the
\* store is answered false.
C3_Witness ==
    \E s \in Object, w \in {d \in Set : d.id = WILDCARD_ID} :
        LET dY == MkSet(w.namespace, "a", w.relation)
        IN  /\ has(Graph, s, w)
            /\ dY \notin verticies
            /\ check(Graph, s, dY, NoLimit)
            /\ \E t \in verticies :
                  /\ t # s /\ t.namespace = s.namespace
                  /\ ~check(Graph, t, dY, NoLimit)

\* The Sets at the end of a chain of tuples a -> S1, S1 -> S2, ..., each Si a
\* Set that is the source of the next tuple.
RECURSIVE SetChain(_, _)
SetChain(g, S) ==
    LET T == S \cup {x \in Set : \E y \in S : has(g, y, x)}
    IN  IF T = S THEN S ELSE SetChain(g, T)

ChainFrom(g, a) == SetChain(g, {x \in Set : has(g, a, x)})

\* C4: when the tuples a -> S1, S1 -> S2, ..., Sn -> d are all in the graph
\* (n >= 1), check(a, d, None) is true.
C4_UsersetRewriteTransitive ==
    \A a \in ObjectOrSet, d \in Set :
        (\E Sn \in ChainFrom(Graph, a) : has(Graph, Sn, d))
            => check(Graph, a, d, NoLimit)

\* C4 witness: a chain a -> S1 -> S2 -> d of distinct vertices from an
\* Object, with no shorter way from a to a vertex matching d.
C4_Witness ==
    \E a \in Object, S1 \in Set, S2 \in Set, d \in Set :
        /\ Cardinality({S1, S2, d}) = 3
        /\ has(Graph, a, S1) /\ has(Graph, S1, S2) /\ has(Graph, S2, d)
        /\ \A v \in ReachWithin(Graph, a, 2) : ~Matches(v, d)
        /\ check(Graph, a, d, NoLimit)

\* C8: check(s, d, Some(k)) is true exactly when a path of length between 1
\* and k leads from the resolved source to a vertex matching d; so a true
\* answer under a limit is a true answer without one, and a match first
\* reached at length k + 1 is answered false.
C8_DepthLimit ==
    \A s \in ObjectOrSet, d \in Set, k \in 0..MaxLimit :
        /\ check(Graph, s, d, Some(k))
              <=> \E r \in Resolved(Graph, s) :
                      \E v \in ReachWithin(Graph, r, k) : Matches(v, d)
        /\ check(Graph, s, d, Some(k)) => check(Graph, s, d, NoLimit)

\* C8 witness: a match first reached at length 2 is refused under Some(1)
\* and granted under Some(2) and under None.
C8_Witness ==
    \E s \in Object, d \in Set :
        /\ s \in verticies
        /\ \A v \in ReachWithin(Graph, s, 1) : ~Matches(v, d)
        /\ \E v \in ReachWithin(Graph, s, 2) : Matches(v, d)
        /\ ~check(Graph, s, d, Some(1))
        /\ check(Graph, s, d, Some(2))
        /\ check(Graph, s, d, NoLimit)

\* C10: every Object that expand(d) returns is answered true by
\* check(obj, d, None), also when expand started from d's wildcard.
C10_ExpandAgreesWithCheck ==
    \A d \in Set, ord \in IterOrders :
        LET items == expand(Graph, d, ord)
        IN  \A i \in 1..Len(items) : check(Graph, items[i][1], d, NoLimit)

\* C10 witness: d has no vertex, expand(d) starts from the wildcard and
\* returns an Object.
C10_Witness ==
    \E d \in Set :
        /\ d \notin verticies
        /\ expand(Graph, d, VertexOrder) # <<>>
        /\ check(Graph, expand(Graph, d, VertexOrder)[1][1], d, NoLimit)

\* g with the edge s -> d taken out of s.edges_out.
WithoutEdge(g, s, d) == [g EXCEPT !.edges_out[s] = @ \ {d}]

\* Every path to a vertex matching d that starts at s, or at a wildcard
\* vertex of s's namespace, uses the edge s -> d.
OnlyThroughEdge(g, s, d) ==
    \A u \in {s} \cup NamespaceWildcards(s) : ~Reaches(WithoutEdge(g, s, d), u, d)

\* No path leads to a vertex matching d from s or from a wildcard vertex of
\* s's namespace.
Revoked(g, s, d) ==
    \A u \in {s} \cup NamespaceWildcards(s) : ~Reaches(g, u, d)

\* C5: a remove(s, d) made when every path from s, or from a wildcard vertex
\* of s's namespace, to a vertex matching d used the edge s -> d leaves
\* check(s, d, None) false; and no later remove makes it true again (only an
\* insert can).
C5_RevocationTakesEffect ==
    [][(\E s2 \in ObjectOrSet, d2 \in Set : Remove(s2, d2))
          => \A s \in ObjectOrSet, d \in Set :
                (\/ Remove(s, d) /\ OnlyThroughEdge(Graph, s, d)
                 \/ Revoked(Graph, s, d))
                    => (Revoked(Graph, s, d) /\ ~check(Graph, s, d, NoLimit))'
      ]_vars

\* C5 witness: a state from which remove(s, d) revokes a tuple that
\* check(s, d) rests on, once for an Object source that keeps its vertex and
\* once for a Set source whose vertex leaves the store with the edge.
C5_Witness ==
    /\ nops < MaxOps
    /\ \E s \in Object, d \in Set :
          /\ has(Graph, s, d) /\ check(Graph, s, d, NoLimit)
          /\ OnlyThroughEdge(Graph, s, d)
          /\ s \in remove(Graph, s, d).verticies
          /\ ~check(remove(Graph, s, d), s, d, NoLimit)
    /\ \E s \in Set, d \in Set :
          /\ has(Graph, s, d) /\ check(Graph, s, d, NoLimit)
          /\ OnlyThroughEdge(Graph, s, d)
          /\ s \notin remove(Graph, s, d).verticies
          /\ ~check(remove(Graph, s, d), s, d, NoLimit)

\* C6: for a source without a vertex, check answers as for the wildcard of
\* the same namespace and the same kind, (src.namespace, "*", src.relation),
\* and false when that vertex is missing too.
C6_SameKindFallback ==
    \A src \in ObjectOrSet \ verticies, dst \in Set :
        check(Graph, src, dst, NoLimit)
            <=> /\ wildcard_of(src) \in verticies
                /\ Reaches(Graph, wildcard_of(src), dst)

\* C7: over insert calls alone, a check(src, dst, limit) that is true stays
\* true after every insert.
C7_CheckMonotone ==
    [][\A src \in ObjectOrSet, dst \in Set, limit \in Limits :
          check(Graph, src, dst, limit) => check(Graph, src, dst, limit)'
      ]_vars

\* The answers of the queries on g.
Answers(g) ==
    [has |-> [q \in ObjectOrSet \X Set |-> has(g, q[1], q[2])],
     check |-> [q \in ObjectOrSet \X Set \X Limits |-> check(g, q[1], q[2], q[3])],
     expand |-> [d \in Set |-> Range(expand(g, d, VertexOrder))]]

\* C9: a graph built by insert calls and the graph read back from its save
\* file give the same answer to every has, check and expand query.
C9_SnapshotRoundTrip ==
    \A ord \in IterOrders :
        LET loaded == read_savefile(write_savefile(Graph, ord))
        IN  ~loaded.panicked /\ Answers(loaded.graph) = Answers(Graph)

\* C11: no Object appears in more than one item of expand(d).
C11_ExpandNoDuplicates ==
    \A d \in Set, ord \in IterOrders :
        LET items == expand(Graph, d, ord)
        IN  \A i, j \in 1..Len(items) : items[i][1] = items[j][1] => i = j

\* The graph built from the empty one by insert(a, S) and insert(S, d).
ChainGraph(a, S, d) == insert(insert(EmptyGraph, a, S), S, d)

\* C12 as stated: no path of an item of expand(d) contains the start vertex,
\* and on the graph built by insert(a, S); insert(S, d) the result of
\* expand(d) is the one item (a, [S]).
C12_ExpandWitnessPath ==
    \A d \in Set, ord \in IterOrders :
        LET items == expand(Graph, d, ord)
        IN  /\ \A i \in 1..Len(items) :
                  start_vertex(Graph, d)[1] \notin Range(items[i][2])
            /\ \A a \in Object, S \in Set \ {d} :
                  (has(Graph, a, S) /\ has(Graph, S, d)
                      /\ Graph = ChainGraph(a, S, d))
                          => items = << <<a, <<S>>>> >>

\* C12 amended: the path of every item of expand(d) begins with the start
\* vertex and continues with the Sets traversed from it, each the source of
\* a tuple into the one before, the last one holding the tuple of the
\* Object; and on the graph built by insert(a, S); insert(S, d) the result
\* of expand(d) is the one item (a, [d, S]).
C12_ExpandPathFromStart ==
    \A d \in Set, ord \in IterOrders :
        LET items == expand(Graph, d, ord)
        IN  /\ \A i \in 1..Len(items) :
                  LET obj == items[i][1]
                      path == items[i][2]
                  IN  /\ obj \in Object
                      /\ Len(path) >= 1
                      /\ path[1] = start_vertex(Graph, d)[1]
                      /\ \A k \in 2..Len(path) :
                            path[k] \in Set /\ has(Graph, path[k], path[k - 1])
                      /\ has(Graph, obj, path[Len(path)])
            /\ \A a \in Object, S \in Set \ {d} :
                  (has(Graph, a, S) /\ has(Graph, S, d)
                      /\ Graph = ChainGraph(a, S, d))
                          => items = << <<a, <<d, S>>>> >>

\* C12 witness: the graph of insert(a, S); insert(S, d) is reached and
\* expand(d) returns the one item (a, [d, S]) on it.
C12_Witness ==
    \E a \in Object, S \in Set, d \in Set :
        /\ S # d /\ a.id # WILDCARD_ID /\ S.id # WILDCARD_ID /\ d.id # WILDCARD_ID
        /\ Graph = ChainGraph(a, S, d)
        /\ expand(Graph, d, VertexOrder) = << <<a, <<d, S>>>> >>

\* C13: has(s, d) is true in the state a call insert(s, d) leaves, whatever
\* the state it was made in.
C13_InsertHasRoundTrip ==
    [][\A s \in ObjectOrSet, d \in Set : Insert(s, d) => has(Graph, s, d)']_vars

\* C13 witness: tuples of a Set source and of an Object source are in the
\* graph, neither of them a scaffolding edge of insert.
C13_Witness ==
    /\ \E s \in Set, d \in Set :
          s # d /\ s # wildcard_of(d) /\ has(Graph, s, d)
    /\ \E s \in Object, d \in Set : has(Graph, s, d)

\* C14: from every state, insert(s, d) followed by remove(s, d) leaves
\* has(s, d) false.
C14_RemoveUndoesInsert ==
    \A s \in ObjectOrSet, d \in Set :
        ~has(remove(insert(Graph, s, d), s, d), s, d)

\* C14 witness: a state insert(s, d) leaves as it is (the tuple and its
\* scaffolding are in place) and from which remove(s, d) takes the tuple
\* out, once with both endpoints staying in the store and once with the
\* source leaving it.
C14_Witness ==
    /\ \E s \in ObjectOrSet, d \in Set :
          /\ has(Graph, s, d) /\ Graph = insert(Graph, s, d)
          /\ {s, d} \subseteq remove(Graph, s, d).verticies
          /\ ~has(remove(Graph, s, d), s, d)
    /\ \E s \in ObjectOrSet, d \in Set :
          /\ has(Graph, s, d) /\ Graph = insert(Graph, s, d)
          /\ s \notin remove(Graph, s, d).verticies
          /\ ~has(remove(Graph, s, d), s, d)

\* C15: from every state, a second insert(s, d) changes nothing the first
\* one left (vertex set, edges_in, edges_out), and a second remove(s, d)
\* changes nothing the first one left.
C15_Idempotence ==
    \A s \in ObjectOrSet, d \in Set :
        LET inserted == insert(Graph, s, d)
            removed == remove(Graph, s, d)
        IN  /\ insert(inserted, s, d) = inserted
            /\ remove(removed, s, d) = removed

\* C15 witness: a state that insert(s, d) changes, and that remove(s2, d2)
\* changes once leaving both endpoints in the store and once collecting one.
C15_Witness ==
    /\ verticies # {}
    /\ \E s \in ObjectOrSet, d \in Set : insert(Graph, s, d) # Graph
    /\ \E s \in ObjectOrSet, d \in Set :
          /\ remove(Graph, s, d) # Graph
          /\ {s, d} \subseteq remove(Graph, s, d).verticies
    /\ \E s \in ObjectOrSet, d \in Set :
          /\ remove(Graph, s, d) # Graph
          /\ ~({s, d} \subseteq remove(Graph, s, d).verticies)

\* C16: in every state, has(s, d) implies check(s, d, None).
C16_CheckSupersetOfHas ==
    \A s \in ObjectOrSet, d \in Set :
        has(Graph, s, d) => check(Graph, s, d, NoLimit)

\* C16 witness: a tuple whose source is its own destination, and a tuple
\* between two different vertices, both answered true by has and by check.
C16_Witness ==
    /\ \E x \in Set : has(Graph, x, x) /\ check(Graph, x, x, NoLimit)
    /\ \E s \in Object, d \in Set :
          has(Graph, s, d) /\ check(Graph, s, d, NoLimit)

\* C17: over the graphs built without any call insert(x, x),
\* check(x, x, None) is false for every Set x, wildcard Sets included.
C17_CheckReflexiveFree ==
    \A x \in Set : ~check(Graph, x, x, NoLimit)

\* C18: has(s, d) is true exactly when s and d both have a vertex and d is
\* in s.edges_out; a source that reaches d through a wildcard vertex only, or
\* by a longer path only, is answered false.
C18_HasIsDirectLookup ==
    \A s \in ObjectOrSet, d \in Set :
        has(Graph, s, d)
            <=> (s \in verticies /\ d \in verticies /\ d \in edges_out[s])

\* C18 witness: the tuple (ns, "*") -> d is present, (ns, a) has no vertex,
\* and has((ns, a), d) is false where check((ns, a), d) is true; and a
\* source in the store reaches a destination by the two tuples s -> S -> d2
\* only, where has(s, d2) is false and check(s, d2) is true.
C18_Witness ==
    /\ \E ns \in Namespaces, d \in Set :
          /\ has(Graph, MkObject(ns, WILDCARD_ID), d)
          /\ MkObject(ns, "a") \notin verticies
          /\ ~has(Graph, MkObject(ns, "a"), d)
          /\ check(Graph, MkObject(ns, "a"), d, NoLimit)
    /\ \E s \in Object, S \in Set, d2 \in Set :
          /\ s.id # WILDCARD_ID /\ S.id # WILDCARD_ID /\ d2.id # WILDCARD_ID
          /\ has(Graph, s, S) /\ has(Graph, S, d2)
          /\ d2 \notin edges_out[s]
          /\ ~has(Graph, s, d2)
          /\ check(Graph, s, d2, NoLimit)

\* C19: a call remove(s, d) made with s or d out of the store changes
\* neither the vertex set nor any edge set; made with both in the store it
\* takes d out of s.edges_out and s out of d.edges_in, may take s and d out
\* of the store, and changes nothing else.
C19_RemoveFrame ==
    [][\A s \in ObjectOrSet, d \in Set :
          Remove(s, d) =>
              IF s \notin verticies \/ d \notin verticies
              THEN UNCHANGED <<verticies, edges_in, edges_out>>
              ELSE /\ edges_out'[s] = edges_out[s] \ {d}
                   /\ edges_in'[d] = edges_in[d] \ {s}
                   /\ \A v \in VertexId \ {s} : edges_out'[v] = edges_out[v]
                   /\ \A v \in VertexId \ {d} : edges_in'[v] = edges_in[v]
                   /\ verticies' \subseteq verticies
                   /\ verticies \ verticies' \subseteq {s, d}
      ]_vars

\* C19 witness: an Object in the store left with nothing but its scaffolding
\* edge to the wildcard of its namespace, and a Set in the store left with
\* nothing but the scaffolding edge from its wildcard: their tuple was
\* removed and the scaffolding stayed.
C19_Witness ==
    /\ \E s \in Object \cap verticies :
          /\ s.id # WILDCARD_ID
          /\ edges_out[s] = {wildcard_of(s)} /\ edges_in[s] = {}
    /\ \E d \in Set \cap verticies :
          /\ d.id # WILDCARD_ID
          /\ edges_in[d] = {wildcard_of(d)} /\ edges_out[d] = {}
          /\ has(Graph, wildcard_of(d), d)

\* C20: expand(d) starts from the vertex of d when it is in the store (every
\* path returned begins with d); otherwise it answers as expand of the
\* wildcard (d.namespace, "*", d.relation); and it returns the empty list
\* when neither vertex is in the store.
C20_ExpandStartResolution ==
    \A d \in Set, ord \in IterOrders :
        LET items == expand(Graph, d, ord)
            w == MkSet(d.namespace, WILDCARD_ID, d.relation)
        IN  /\ d \in verticies
                => \A i \in 1..Len(items) : Head(items[i][2]) = d
            /\ (d \notin verticies /\ w \in verticies)
                => /\ items = expand(Graph, w, ord)
                   /\ \A i \in 1..Len(items) : Head(items[i][2]) = w
            /\ (d \notin verticies /\ w \notin verticies) => items = <<>>

\* C20 witness: the three cases side by side, the first two with a result
\* that is not empty.
C20_Witness ==
    /\ \E d \in Set \cap verticies : expand(Graph, d, VertexOrder) # <<>>
    /\ \E d \in Set \ verticies :
          /\ wildcard_of(d) \in verticies
          /\ expand(Graph, d, VertexOrder) # <<>>
    /\ \E d \in Set \ verticies :
          /\ wildcard_of(d) \notin verticies
          /\ expand(Graph, d, VertexOrder) = <<>>

\* A task waits for the store lock.
Waiting(t) == pc[t] \in {"store_lock", "check_store_lock_2"}

\* C21: no state is reachable in which tasks are in the middle of a call
\* and none of them can take a step: as long as a call is running, some
\* running task is past its wait for the store lock or is handed the lock.
C21_DeadlockFreedom ==
    (\E t \in Tasks : Running(t))
        => \E t \in Tasks : Running(t) /\ (Waiting(t) => Granted(t))

\* A mutator is between its first vertex lookup and its last update.
InMutation(t) == pc[t] \in {"add_edge", "retain"}

\* A reader is between its lookups in the store (check) or inside its
\* iteration over the store (write_savefile).
InResolution(t) ==
    pc[t] \in {"check_src_edges", "check_store_lock_2",
               "check_wildcard_edges", "write_vertex"}

\* Task t looks vertices up in the store in this step: it was handed the
\* store lock.
Resolves(t) == Waiting(t) /\ pc'[t] # pc[t]

\* C22: at no time are two insert/remove calls both between their first
\* vertex lookup and their last update, or one of them there while a check
\* resolves its source or write_savefile iterates; and no call looks its
\* endpoints up in the store while an insert or remove is between those
\* points.
C22_MutatorsSerialized ==
    /\ [](\A t \in Tasks, u \in Tasks :
             InMutation(t) /\ u # t => ~InMutation(u) /\ ~InResolution(u))
    /\ [][\A t \in Tasks, u \in Tasks :
             Resolves(t) => ~InMutation(u)]_vars

\* C22 witness: an insert and a remove have both been in their critical
\* section with another call waiting for the store, and so has a reader
\* with a mutator waiting: a remove is between its updates while a
\* write_savefile waits, and another task's insert has returned.
C22_Witness ==
    \E t \in Tasks, u \in Tasks, w \in Tasks :
        /\ pc[t] = "retain" /\ Len(loc[t].todo) < 4
        /\ pc[u] = "store_lock" /\ call[u].kind = "write_savefile"
        /\ pc[w] = "done" /\ call[w].kind = "insert"

\* C23: whenever no insert or remove is running (each has returned or was
\* cancelled), every edge is recorded on both sides and every vertex of the
\* store has an edge.
C23_CancellationSafety ==
    (\A t \in Tasks : ~InMutation(t))
        => /\ \A u \in VertexId, v \in VertexId :
                 v \in edges_out[u] <=> u \in edges_in[v]
           /\ \A v \in verticies : edges_in[v] # {} \/ edges_out[v] # {}

\* C24: read_savefile never fails or aborts, whatever lines it is given: a
\* line it cannot parse is skipped.
C24_ReadTotalAndLenient == ~panicked

\* C25: when a write to the sink fails, write_savefile hands the I/O error
\* back to its caller instead of ending the task.
C25_WriteReportsSinkFailure ==
    \A ord \in IterOrders :
        \A fail_after \in 0..(Len(write_savefile(Graph, ord)) - 1) :
            write_savefile_to(Graph, ord, fail_after).outcome = "error"

\* C26: two runs of write_savefile on the same vertex set and the same edge
\* sets emit the same lines, with the same sources in the same order.
C26_SnapshotDeterministic ==
    \A ord1 \in IterOrders, ord2 \in IterOrders :
        write_savefile(Graph, ord1) = write_savefile(Graph, ord2)

\* C27: between calls, for all vertices u, v of the store, v is in
\* u.edges_out exactly when u is in v.edges_in.
C27_EdgeSymmetry ==
    \A u \in verticies, v \in verticies :
        v \in edges_out[u] <=> u \in edges_in[v]

\* C27 witness: edges are in place after both an insert and a remove have
\* changed the graph: an Object holds nothing but its scaffolding edge (its
\* tuple was removed) next to a Set that is the source of a tuple.
C27_Witness ==
    /\ \E s \in Object \cap verticies :
          s.id # WILDCARD_ID /\ edges_out[s] = {wildcard_of(s)}
    /\ \E s \in Set, d \in Set : s # d /\ s # wildcard_of(d) /\ has(Graph, s, d)

\* C28: over the calls insert(s, d) and remove(s, d) with s # d, no vertex of
\* the store is in its own edges_out.
C28_NoSelfLoops ==
    \A v \in verticies : v \notin edges_out[v]

\* C29: between calls every vertex of the store has an incident edge; a
\* remove takes an endpoint out of the store exactly when both of its edge
\* sets are empty afterwards; and the four vertices insert touches all have
\* an incident edge when it returns.
C29_VertexLifecycle ==
    /\ \A v \in verticies : edges_in[v] # {} \/ edges_out[v] # {}
    /\ \A s \in ObjectOrSet, d \in Set :
          LET removed == remove(Graph, s, d)
              inserted == insert(Graph, s, d)
          IN  /\ ({s, d} \subseteq verticies)
                    => \A e \in {s, d} :
                          e \notin removed.verticies
                              <=> (removed.edges_in[e] = {}
                                      /\ removed.edges_out[e] = {})
              /\ \A v \in {s, d, wildcard_of(s), wildcard_of(d)} :
                    /\ v \in inserted.verticies
                    /\ inserted.edges_in[v] # {} \/ inserted.edges_out[v] # {}

\* C29 witness: a state from which one remove collects both endpoints, and
\* another remove collects neither.
C29_Witness ==
    /\ \E s \in ObjectOrSet, d \in Set :
          /\ has(Graph, s, d) /\ s # d
          /\ remove(Graph, s, d).verticies = verticies \ {s, d}
    /\ \E s \in ObjectOrSet, d \in Set :
          /\ has(Graph, s, d) /\ s # d
          /\ remove(Graph, s, d).verticies = verticies

\* The scaffolding edge insert puts on its source: none for the Object
\* wildcard, src -> src_wildcard for another Object, src_wildcard -> src for
\* a Set.
SourceScaffold(g, src) ==
    IF src.relation # None THEN has(g, wildcard_of(src), src)
    ELSE IF src.id # WILDCARD_ID THEN has(g, src, wildcard_of(src))
    ELSE src \notin g.edges_out[src] /\ src \notin g.edges_in[src]

\* C30: in the state a call insert(src, dst) leaves, the store holds src,
\* dst and their two wildcards, and the edges src -> dst,
\* dst_wildcard -> dst and the scaffolding edge of the source.
C30_InsertInstallsScaffolding ==
    [][\A src \in ObjectOrSet, dst \in Set :
          Insert(src, dst) =>
              (/\ {src, dst, wildcard_of(src), wildcard_of(dst)} \subseteq verticies
               /\ has(Graph, src, dst)
               /\ has(Graph, wildcard_of(dst), dst)
               /\ src \in edges_in[dst] /\ wildcard_of(dst) \in edges_in[dst]
               /\ SourceScaffold(Graph, src))'
      ]_vars

\* C30 witness: the scaffolding of an Object source, of a Set source and of
\* the Object wildcard as source are all in place.
C30_Witness ==
    /\ \E s \in Object, d \in Set :
          /\ s.id # WILDCARD_ID /\ d.id # WILDCARD_ID
          /\ has(Graph, s, d) /\ has(Graph, s, wildcard_of(s))
          /\ has(Graph, wildcard_of(d), d)
    /\ \E s \in Set, d \in Set :
          /\ s.id # WILDCARD_ID /\ s # d
          /\ has(Graph, s, d) /\ has(Graph, wildcard_of(s), s)
    /\ \E s \in Object, d \in Set :
          /\ s.id = WILDCARD_ID
          /\ has(Graph, s, d) /\ edges_in[s] = {}

\* The block header of (namespace, id), and the line it is on.
HeaderLine(ns, id) == <<"[", ns, ":", id, "]">>

\* The lines of the block of (ns, id) in a file: those after its header up
\* to the next header.
BlockLines(lines, ns, id) ==
    {i \in 1..Len(lines) :
        \E h \in 1..(i - 1) :
            /\ lines[h] = HeaderLine(ns, id)
            /\ \A j \in (h + 1)..i : lines[j] = <<>> \/ lines[j][1] # "["}

\* The line is a relation line of rel.
IsRelationLine(line, rel) ==
    /\ Len(line) >= 8
    /\ SubSeq(line, 1, 6) = <<rel, " ", "=", " ", "[", " ">>
    /\ SubSeq(line, Len(line) - 1, Len(line)) = <<" ", "]">>

\* The sources listed between the brackets of a relation line.
RECURSIVE ListItems(_)
ListItems(inner) ==
    IF inner = <<>> THEN <<>>
    ELSE LET k == find(inner, ",")
         IN  IF k = 0 THEN <<inner>>
             ELSE <<SubSeq(inner, 1, k - 1)>>
                     \o ListItems(SubSeq(inner, k + 2, Len(inner)))

\* How the claim renders the source x in the block of v.
Rendered(x, v) ==
    (IF x.namespace = v.namespace /\ x.id = v.id
     THEN <<"self">> ELSE <<x.namespace, ":", x.id>>)
    \o (IF x \in Set THEN <<"#", x.relation>> ELSE <<>>)

\* The in-neighbours of v that a snapshot persists.
Persisted(g, v) == {x \in g.edges_in[v] : x.id # WILDCARD_ID}

\* The file `lines` describes the graph g: the (namespace, id) of every
\* vertex of g has exactly one block header; every Set vertex has exactly
\* one relation line in that block, listing exactly its in-neighbours whose
\* id is not '*', each once; and there is no other relation line and no
\* other header.
Describes(lines, g) ==
    LET rel_lines == {i \in 1..Len(lines) :
                        lines[i] # <<>> /\ lines[i][1] # "["}
    IN  /\ \A v \in g.verticies :
              Cardinality({i \in 1..Len(lines) :
                  lines[i] = HeaderLine(v.namespace, v.id)}) = 1
        /\ \A i \in 1..Len(lines) :
              (lines[i] # <<>> /\ lines[i][1] = "[")
                 => \E v \in g.verticies :
                       lines[i] = HeaderLine(v.namespace, v.id)
        /\ \A v \in Set \cap g.verticies :
              LET own == {i \in BlockLines(lines, v.namespace, v.id) :
                             IsRelationLine(lines[i], v.relation)}
              IN  /\ Cardinality(own) = 1
                  /\ \A i \in own :
                        LET items == ListItems(
                                SubSeq(lines[i], 7, Len(lines[i]) - 2))
                        IN  /\ Len(items) = Cardinality(Persisted(g, v))
                            /\ Range(items) =
                                  {Rendered(x, v) : x \in Persisted(g, v)}
        /\ Cardinality(rel_lines) = Cardinality(Set \cap g.verticies)

\* C35: in the file write_savefile emits, the (namespace, id) of every
\* vertex has exactly one block header; every Set vertex has exactly one
\* relation line in that block, listing exactly its in-neighbours whose id
\* is not '*', each once, as 'self' when the neighbour has the block's
\* namespace and id and with '#relation' iff it is a Set (an empty list when
\* there is none); and there is no other relation line and no other header.
C35_SnapshotContent ==
    \A ord \in IterOrders : Describes(write_savefile(Graph, ord), Graph)

\* C35 witness: a store with an Object vertex, a Set whose line lists its own
\* object as 'self' next to a Set source of another block, and a Set whose
\* list is empty.
C35_Witness ==
    /\ Object \cap verticies # {}
    /\ \E v \in Set \cap verticies : Persisted(Graph, v) = {}
    /\ \E v \in Set \cap verticies :
          /\ MkObject(v.namespace, v.id) \in Persisted(Graph, v)
          /\ \E x \in Set \cap Persisted(Graph, v) : x.namespace # v.namespace

\* C33: among callers that never remove the tuple (s, d), a has(s, d) or a
\* check(s, d, None) that is started after an insert(s, d) was seen to
\* return, by the same task or by another, returns true when it returns,
\* whatever inserts and removes of other tuples run beside it.
C33_ReadYourWrites ==
    \A t \in Tasks :
        (/\ pc[t] = "done"
         /\ call[t].kind \in {"has", "check"}
         /\ call[t].after_insert)
            => loc[t].result = Some(TRUE)

\* C33 witness: a check and a has of the tuple, each started after the
\* insert of that tuple returned, have returned true, the check while the
\* insert of another tuple is at one of its edge updates.
C33_Witness ==
    \E t \in Tasks, u \in Tasks, w \in Tasks :
        /\ pc[t] = "done" /\ call[t].kind = "check" /\ call[t].after_insert
        /\ loc[t].result = Some(TRUE)
        /\ pc[u] = "add_edge" /\ call[u].src # call[t].src
        /\ pc[w] = "done" /\ call[w].kind = "insert" /\ call[w].src = call[t].src

\* C34: while write_savefile iterates over the store no insert or remove
\* changes the graph, and the file it has emitted when it returns describes
\* the vertex set and the edges_in sets of the graph of that moment, which
\* is the graph of its whole iteration.
C34_SnapshotAtomicity ==
    [][\A t \in Tasks :
          /\ pc[t] = "write_vertex" => graphVars' = graphVars
          /\ (call[t].kind = "write_savefile" /\ pc[t] # "done" /\ pc'[t] = "done")
                => Describes(loc'[t].written, Graph')]_vars

\* C34 witness: a write_savefile has emitted the lines of some vertex and
\* has more to emit, while an insert or a remove waits for the store lock.
C34_Witness ==
    \E t \in Tasks, u \in Tasks :
        /\ pc[t] = "write_vertex" /\ loc[t].written # <<>>
        /\ pc[u] = "store_lock" /\ call[u].kind \in {"insert", "remove"}

\* The levels of check(src, dst, limit) on g: the vertices each one reads.
CheckLevels(g, src, dst, limit) ==
    IF src \in g.verticies
    THEN check_levels(g, g.edges_out[src], {}, 1, dst, limit)
    ELSE IF wildcard_src(src) \in g.verticies
         THEN check_levels(g, g.edges_out[wildcard_src(src)], {}, 1, dst, limit)
         ELSE <<>>

\* The last Set of the path of an item of expand.
LastOf(item) == item[2][Len(item[2])]

\* C31: on every graph, cyclic or not, with or without a limit, check and
\* expand come to an end after a bounded number of visits: check reads the
\* edges of a vertex in one level at most and runs through at most one
\* level more than there are vertices (the last one finds every neighbour
\* visited), and expand goes through every Set once, so that
\* all the items found through one Set carry one path and no item is
\* listed twice.
C31_Termination ==
    /\ \A src \in ObjectOrSet, dst \in Set, limit \in Limits :
          LET levels == CheckLevels(Graph, src, dst, limit)
          IN  /\ Len(levels) <= Cardinality(verticies) + 1
              /\ \A v \in VertexId :
                    Cardinality({i \in 1..Len(levels) : v \in levels[i]}) <= 1
              /\ check(Graph, src, dst, limit) \in BOOLEAN
    /\ \A dst \in Set, ord \in IterOrders :
          LET items == expand(Graph, dst, ord)
          IN  \A i \in 1..Len(items), j \in 1..Len(items) :
                 /\ LastOf(items[i]) = LastOf(items[j])
                       => items[i][2] = items[j][2]
                 /\ items[i] = items[j] => i = j

\* C31 witness: two Sets are members of each other, check started on the
\* cycle goes around it and answers false for a destination off the cycle,
\* and expand of a Set on the cycle returns an Object found through the
\* other Set.
C31_Witness ==
    \E S \in Set, D \in Set :
        /\ S # D /\ has(Graph, S, D) /\ has(Graph, D, S)
        /\ \E x \in Set :
              /\ ~check(Graph, S, x, NoLimit)
              /\ Len(CheckLevels(Graph, S, x, NoLimit)) >= 2
        /\ \E i \in 1..Len(expand(Graph, S, VertexOrder)) :
              LastOf(expand(Graph, S, VertexOrder)[i]) = D

\* Task t holds a guard of the store lock.
HoldsStoreLock(t) == store_readers[t] > 0 \/ t \in store_writer

\* A reader is at the .await of an edge set: the edge lookup of has, the
\* collection of the first neighbours of check and expand, or a level of
\* their traversal.
AtEdgeRead(t) ==
    pc[t] \in {"has_edges", "check_src_edges", "check_wildcard_edges",
               "check_visit", "expand_start_edges", "expand_visit"}

\* C32: has, check and expand hold the store lock only while they look
\* their endpoints up in the store: at every read of an edge set (the edge
\* lookup of has, the neighbours of the resolved vertex, the levels of the
\* traversal) the task holds no guard of the store lock.
C32_ReadersReleaseBeforeTraversing ==
    \A t \in Tasks : AtEdgeRead(t) => ~HoldsStoreLock(t)

\* The line write_savefile emits for a Set vertex of relation rel that has
\* no persisted source.
EmptyRelationLine(rel) == <<rel, " ", "=", " ", "[", " ", " ", "]">>

\* C36: when read_savefile reads a relation line whose bracket list is
\* empty it calls insert for no source: the graph it builds is the same
\* before and after the line, so the line adds no tuple, none from the
\* block's own object either.
C36_EmptyLineLoadsNothing ==
    [][(input # <<>> /\ \E rel \in Relations : Head(input) = EmptyRelationLine(rel))
          => <<verticies, edges_in, edges_out>>' = <<verticies, edges_in, edges_out>>
      ]_vars

\* C37: no tuple is lost by a snapshot.  Whatever the graph, once a tuple
\* (s, d) is inserted into it (s a wildcard Object or wildcard Set
\* included), the graph read back from the file written for it answers
\* has(s, d) true.
C37_SnapshotKeepsTuples ==
    \A s \in ObjectOrSet, d \in Set, ord \in IterOrders :
        LET G == insert(Graph, s, d)
            loaded == read_savefile(write_savefile(G, ord))
        IN  has(loaded.graph, s, d)

\* The Objects of the items expand(d) returns.
Expanded(g, d, ord) ==
    LET items == expand(g, d, ord)
    IN  {items[i][1] : i \in 1..Len(items)}

\* C38: in every graph built by insert calls, for every Object o and Set d
\* with check(o, d, None) true, expand(d) has an item for o or for the
\* wildcard Object of o's namespace.
C38_ExpandCoversCheck ==
    \A o \in Object, d \in Set, ord \in IterOrders :
        check(Graph, o, d, NoLimit)
            => Expanded(Graph, d, ord) \cap {o, wildcard_of(o)} # {}

\* C38 witness: three ways in which expand covers a true check: an item for
\* the Object itself at the end of a chain through another Set, an item for
\* the wildcard alone, and an item found from the wildcard of a destination
\* that has no vertex.
C38_Witness ==
    /\ \E o \in Object, d \in Set :
          /\ check(Graph, o, d, NoLimit) /\ ~has(Graph, o, d)
          /\ o.id # WILDCARD_ID
          /\ o \in Expanded(Graph, d, VertexOrder)
    /\ \E o \in Object, d \in Set :
          /\ check(Graph, o, d, NoLimit)
          /\ o \notin Expanded(Graph, d, VertexOrder)
          /\ wildcard_of(o) \in Expanded(Graph, d, VertexOrder)
    /\ \E o \in Object, d \in Set \ verticies :
          check(Graph, o, d, NoLimit)

\* The Sets that a chain of stored tuples of length >= 1 leads to from src.
RECURSIVE RsClosure(_, _)
RsClosure(rs, nodes) ==
    LET more == nodes \cup
                UNION {UNION {{Pair(d, r) : d \in rs.src_to_dst[n][r]} :
                                  r \in Relations} : n \in nodes}
    IN  IF more = nodes THEN nodes ELSE RsClosure(rs, more)

RsReach(rs, src) ==
    RsClosure(rs, UNION {{Pair(d, r) : d \in rs.src_to_dst[src][r]} :
                             r \in Relations})

\* C39: has_recursive(src, rel, dst, u32::MAX) is true exactly when a chain
\* of stored tuples of some length >= 1 leads from src to the set
\* (dst, rel): the answer of a breadth-first search over src_to_dst.
C39_PriorityQueueIsBfs ==
    \A src \in ObjectOrSet, rel \in Relations, dst \in Object, ord \in IterOrders :
        has_recursive(RelationSet, src, rel, dst, U32_MAX, ord)
            <=> Pair(dst, rel) \in RsReach(RelationSet, src)

\* C40: an Object source that is not a wildcard is never collected.  An
\* insert(s, d) with such an s leaves s in the store with its edge to the
\* wildcard Object of its namespace; every later insert or remove keeps
\* both; and when s was not in the store before, remove(s, d) right after
\* insert(s, d) does not give the vertex set back.
C40_ObjectSourcesStay ==
    /\ [](\A s \in Object, d \in Set :
             LET inserted == insert(Graph, s, d)
             IN  s.id # WILDCARD_ID
                    => /\ s \in inserted.verticies
                       /\ wildcard_of(s) \in inserted.edges_out[s]
                       /\ s \notin verticies
                             => remove(inserted, s, d).verticies # verticies)
    /\ [][\A s \in Object :
             (s.id # WILDCARD_ID /\ s \in verticies)
                => /\ wildcard_of(s) \in edges_out[s]
                   /\ s \in verticies'
                   /\ wildcard_of(s) \in edges_out'[s]]_vars

\* C40 witness: the tuple of an Object source was removed, and the Object
\* is still in the store with nothing but its edge to the wildcard, next to
\* a Set that kept nothing but the edge from its own wildcard.
C40_Witness ==
    \E s \in Object \cap verticies, d \in Set \cap verticies :
        /\ s.id # WILDCARD_ID /\ d.id # WILDCARD_ID
        /\ edges_out[s] = {wildcard_of(s)}
        /\ edges_in[d] = {wildcard_of(d)}
        /\ edges_out[d] = {}

\* ------------------------------------------------------- model soundness
\* The ids stand for the vertex handles only if no edge set ever refers to a
\* vertex that left the store, and a vertex outside the store has no edges.
HandlesAreIds ==
    \A v \in VertexId :
        /\ edges_in[v] \subseteq verticies
        /\ edges_out[v] \subseteq verticies
        /\ v \notin verticies => edges_in[v] = {} /\ edges_out[v] = {}

\* Inside the loops of check and expand, and at the edge lookup of has, a
\* task holds no guard of the store lock.
TraversalHoldsNoStoreLock ==
    \A t \in Tasks :
        pc[t] \in {"has_edges", "check_visit", "expand_start_edges", "expand_visit"}
            => store_readers[t] = 0 /\ t \notin store_writer

====
